---- MODULE Spec2Model ----
(***************************************************************************)
(* Frame orchestration of vkism: PrimaryRenderer (render/primary_renderer  *)
(* .rs), the RenderTarget two-phase protocol (render/render_target.rs) and *)
(* the scoped command recording (render/command_buffer.rs).                *)
(*                                                                         *)
(* One CPU thread runs render_to_target; the GPU finishes submitted        *)
(* batches, and the presentation engine executes queued present waits, at  *)
(* arbitrary later times, between any two calls of the thread.  The        *)
(* results the code branches on or discards (the fence wait, the fence     *)
(* reset, acquire, begin recording, submit, present, the wait for the idle *)
(* device) are inputs.                                                     *)
(***************************************************************************)
EXTENDS Integers, Sequences, FiniteSets

VARIABLES
    current_frame,   \* PrimaryRenderer.current_frame
    fences,          \* PrimaryRenderer.fences: slot -> fence is signalled
    clear_values,    \* PrimaryRenderer.clear_values: Vec<Option<ClearValue>>
    render_area,     \* PrimaryRenderer.render_area: Option<Rect2D>
    gpu_pending,     \* slot -> a batch submitted on the slot is unfinished
    pc,              \* position of the CPU thread inside render_to_target
    render_info,     \* Option<FrameRenderInfo> held by render_frame
    calls,           \* device / target calls made so far by the running cycle
    last_clear,      \* history: index -> last set_clear_value argument
    last_area,       \* history: last set_render_area argument
    last_outcome,    \* history: slot -> how the last cycle on the slot went
    harness,         \* counting test harness of the round trip scenario
    device           \* semaphores, presentation engine and batches, when observed

vars == <<current_frame, fences, clear_values, render_area, gpu_pending, pc,
          render_info, calls, last_clear, last_area, last_outcome, harness,
          device>>

----------------------------------------------------------------------------
(* Bounds of the model *)

\* set_clear_value is called with indices 0..MaxIndex
MaxIndex == 1
\* clear values are 1..MaxClearValue; 0 stands for ClearValue::default()
MaxClearValue == 1
\* render area overrides have sides 1..MaxRect
MaxRect == 1
\* a target hands out at most MaxAttachments color attachments
MaxAttachments == 2
\* frames driven by the round trip harness
MaxFrames == 5
\* the swapchain has MaxImages images
MaxImages == 2
\* surface extents are 0..MaxExtent or u32::MAX, window sizes -1..MaxExtent
MaxExtent == 2
\* surface image counts are 0..MaxCount or u32::MAX
MaxCount == 8
\* the physical device has at most MaxFamilies queue families
MaxFamilies == 3

----------------------------------------------------------------------------
(* Program constants and data *)

MAX_FRAMES_IN_FLIGHT == 2

Slots == 0 .. (MAX_FRAMES_IN_FLIGHT - 1)

\* Option<T>: None is the empty sequence, Some(v) the one element sequence
None == <<>>
Some(v) == <<v>>
IsSome(o) == Len(o) = 1
Unwrap(o) == o[1]
UnwrapOr(o, d) == IF IsSome(o) THEN o[1] ELSE d

Layouts == {"UNDEFINED", "COLOR_ATTACHMENT_OPTIMAL", "PRESENT_SRC_KHR"}
Accesses == {"NONE", "COLOR_ATTACHMENT_WRITE"}
QueueFamilies == {0, 1}

FrameRenderAttachmentImageStateExternal ==
    [layout : Layouts, access : Accesses, queue_family : QueueFamilies]

State(l, a, q) == [layout |-> l, access |-> a, queue_family |-> q]

\* variant: every slot is handed the semaphores of slot 0
FrameSyncInfoShared(slot) ==
    [image_available |-> <<"image_available", 0>>,
     render_finished |-> <<"render_finished", 0>>]

FrameSyncInfo(slot) ==
    [image_available |-> <<"image_available", slot>>,
     render_finished |-> <<"render_finished", slot>>]

Rect2D(o, e) == [offset |-> o, extent |-> e]
Rect2DFromExtent(e) == Rect2D(<<0, 0>>, e)

ClearValues == 1 .. MaxClearValue
ClearValueDefault == 0
ClearOptions == {None} \cup {Some(v) : v \in ClearValues}

Rects == {Rect2D(<<o, o>>, <<w, w>>) : o \in {0, 1}, w \in 1 .. MaxRect}
AreaOptions == {None} \cup {Some(r) : r \in Rects}


----------------------------------------------------------------------------
(* Frame descriptions a render target may return *)

FrameRenderAttachment(img, init, fin) ==
    [image |-> img, image_view |-> img,
     initial_state |-> init, final_state |-> fin]

FrameRenderInfo(atts, ext, idx) ==
    [color_attachments |-> atts, extent |-> ext, image_index |-> idx]

Canonical == State("COLOR_ATTACHMENT_OPTIMAL", "COLOR_ATTACHMENT_WRITE", 0)
\* vk::QUEUE_FAMILY_IGNORED is !0u32, all 32 bits set: no index of a queue
\* family; written here as the two's complement reading of those bits
QUEUE_FAMILY_IGNORED == 0 - 1

\* variant: the acquired image is declared with the ignored queue family
SwapchainInitialIgnored == State("UNDEFINED", "NONE", QUEUE_FAMILY_IGNORED)

SwapchainInitial == State("UNDEFINED", "NONE", 0)
SwapchainFinal == State("PRESENT_SRC_KHR", "NONE", 0)

FrameExtent == <<2, 2>>

\* what SwapchainRenderTarget::render_frame_prelude returns for image idx
SwapchainFrame(idx) ==
    FrameRenderInfo(
        <<FrameRenderAttachment(idx, SwapchainInitial, SwapchainFinal)>>,
        FrameExtent, idx)

\* an offscreen target already in the writable state, and a mixed one
OffscreenFrame ==
    FrameRenderInfo(
        <<FrameRenderAttachment(0, Canonical, Canonical),
          FrameRenderAttachment(1, Canonical, Canonical)>>,
        <<3, 1>>, 0)

MixedFrame ==
    FrameRenderInfo(
        <<FrameRenderAttachment(0, Canonical, SwapchainFinal),
          FrameRenderAttachment(1, SwapchainInitial, Canonical)>>,
        FrameExtent, 0)

TargetFrames == {SwapchainFrame(0), OffscreenFrame, MixedFrame}

\* (initial, final) pairs: every initial state, and every final state
StatePairs ==
    {<<s, SwapchainFinal>> : s \in FrameRenderAttachmentImageStateExternal}
    \cup {<<SwapchainInitial, s>> : s \in FrameRenderAttachmentImageStateExternal}

AttachmentLists(n) ==
    {[i \in 1 .. n |->
        FrameRenderAttachment(i - 1, p[i][1], p[i][2])] :
            p \in [1 .. n -> StatePairs]}

AllFrames ==
    {FrameRenderInfo(atts, FrameExtent, 0) :
        atts \in UNION {AttachmentLists(n) : n \in 0 .. MaxAttachments}}

\* anyhow::Result<FrameRenderInfo>
Ok(info) == [ok |-> TRUE, info |-> Some(info)]
Err == [ok |-> FALSE, info |-> None]

----------------------------------------------------------------------------
(* Pure parts of the recording closure of render_to_target *)

ImageTransition(img, src, dst) ==
    [image |-> img, aspect_mask |-> "COLOR", src_state |-> src, dst_state |-> dst]

InitialIsCanonical(attachment) ==
    /\ attachment.initial_state.layout = "COLOR_ATTACHMENT_OPTIMAL"
    /\ attachment.initial_state.access = "COLOR_ATTACHMENT_WRITE"
    /\ attachment.initial_state.queue_family = 0

FinalIsCanonical(attachment) ==
    /\ attachment.final_state.layout = "COLOR_ATTACHMENT_OPTIMAL"
    /\ attachment.final_state.access = "COLOR_ATTACHMENT_WRITE"
    /\ attachment.final_state.queue_family = 0

\* variants: only the layout is compared
NotInitialCanonicalLayoutOnly(attachment) ==
    attachment.initial_state.layout # "COLOR_ATTACHMENT_OPTIMAL"
NotFinalCanonicalLayoutOnly(attachment) ==
    attachment.final_state.layout # "COLOR_ATTACHMENT_OPTIMAL"

NotInitialCanonical(attachment) == ~InitialIsCanonical(attachment)
NotFinalCanonical(attachment) == ~FinalIsCanonical(attachment)

\* variant: the pre-pass barrier leaves the image with its declared family
PreTransitionKeepFamily(attachment) ==
    ImageTransition(attachment.image,
        <<"TOP_OF_PIPE", attachment.initial_state.layout,
          attachment.initial_state.access,
          attachment.initial_state.queue_family>>,
        <<"COLOR_ATTACHMENT_OUTPUT", "COLOR_ATTACHMENT_OPTIMAL",
          "COLOR_ATTACHMENT_WRITE", attachment.initial_state.queue_family>>)

PreTransition(attachment) ==
    ImageTransition(attachment.image,
        <<"TOP_OF_PIPE", attachment.initial_state.layout,
          attachment.initial_state.access,
          attachment.initial_state.queue_family>>,
        <<"COLOR_ATTACHMENT_OUTPUT", "COLOR_ATTACHMENT_OPTIMAL",
          "COLOR_ATTACHMENT_WRITE", 0>>)

\* variant: the post-pass barrier starts from the declared initial state
PostTransitionFromInitial(attachment) ==
    ImageTransition(attachment.image,
        <<"TOP_OF_PIPE", attachment.initial_state.layout,
          attachment.initial_state.access,
          attachment.initial_state.queue_family>>,
        <<"BOTTOM_OF_PIPE", attachment.final_state.layout,
          attachment.final_state.access,
          attachment.final_state.queue_family>>)

PostTransition(attachment) ==
    ImageTransition(attachment.image,
        <<"TOP_OF_PIPE", "COLOR_ATTACHMENT_OPTIMAL",
          "COLOR_ATTACHMENT_WRITE", 0>>,
        <<"BOTTOM_OF_PIPE", attachment.final_state.layout,
          attachment.final_state.access,
          attachment.final_state.queue_family>>)

image_transitions_1(info) ==
    LET kept == SelectSeq(info.color_attachments, NotInitialCanonical)
    IN  [k \in 1 .. Len(kept) |-> PreTransition(kept[k])]

image_transitions_2(info) ==
    LET kept == SelectSeq(info.color_attachments, NotFinalCanonical)
    IN  [k \in 1 .. Len(kept) |-> PostTransition(kept[k])]

\* CommandRecorder::image_transitions: one ImageMemoryBarrier2 per transition
ImageMemoryBarrier2(t) ==
    [src_stage_mask |-> t.src_state[1],
     src_access_mask |-> t.src_state[3],
     dst_stage_mask |-> t.dst_state[1],
     dst_access_mask |-> t.dst_state[3],
     old_layout |-> t.src_state[2],
     new_layout |-> t.dst_state[2],
     src_queue_family_index |-> t.src_state[4],
     dst_queue_family_index |-> t.dst_state[4],
     image |-> t.image,
     aspect_mask |-> t.aspect_mask]

\* variant: the table is read one entry too far
ClearValueAtOffByOne(table, i) ==
    IF i + 1 < Len(table) THEN table[i + 2] ELSE None

\* self.clear_values.get(i).cloned().unwrap_or(None), i counted from 0
ClearValueAt(table, i) == IF i < Len(table) THEN table[i + 1] ELSE None

RenderingAttachmentInfo(attachment, clear_value) ==
    [image_layout |-> "COLOR_ATTACHMENT_OPTIMAL",
     load_op |-> IF IsSome(clear_value) THEN "CLEAR" ELSE "LOAD",
     clear_value |-> UnwrapOr(clear_value, ClearValueDefault),
     store_op |-> "STORE",
     image_view |-> attachment.image_view]

color_attachments(info, table) ==
    [k \in 1 .. Len(info.color_attachments) |->
        RenderingAttachmentInfo(info.color_attachments[k],
                                ClearValueAt(table, k - 1))]

\* variant: the override is not consulted
rendering_info_full_extent(info, table, area) ==
    [render_area |-> Rect2DFromExtent(info.extent),
     color_attachments |-> color_attachments(info, table),
     layer_count |-> 1,
     view_mask |-> 0]

rendering_info(info, table, area) ==
    [render_area |-> UnwrapOr(area, Rect2DFromExtent(info.extent)),
     color_attachments |-> color_attachments(info, table),
     layer_count |-> 1,
     view_mask |-> 0]

\* a call on the device, the queue or the target: its name, the slot whose
\* objects it uses, and its argument
Call(op, slot, arg) == [op |-> op, slot |-> slot, arg |-> arg]

cmd_image_transitions(slot, transitions) ==
    Call("cmd_pipeline_barrier2", slot,
         [k \in 1 .. Len(transitions) |-> ImageMemoryBarrier2(transitions[k])])

\* What the callback handed to render_to_target records: nothing, or the
\* pipeline bind and the draw of main.rs
Callbacks == {<<>>, <<"cmd_bind_pipeline", "cmd_draw">>}

\* variant: the post-pass barriers are recorded inside the rendering scope
RecordedCommandsBarrierInside(slot, info, table, area, f) ==
    (IF Len(image_transitions_1(info)) > 0
        THEN <<cmd_image_transitions(slot, image_transitions_1(info))>>
        ELSE <<>>)
    \o <<Call("cmd_begin_rendering", slot, rendering_info(info, table, area)),
         Call("draw_callback", slot, info)>>
    \o [k \in 1 .. Len(f) |-> Call(f[k], slot, <<>>)]
    \o (IF Len(image_transitions_2(info)) > 0
        THEN <<cmd_image_transitions(slot, image_transitions_2(info))>>
        ELSE <<>>)
    \o <<Call("cmd_end_rendering", slot, <<>>),
         Call("end_command_buffer", slot, <<>>)>>

\* variant: the command recorder is leaked, end_command_buffer never called
RecordedCommandsNoEnd(slot, info, table, area, f) ==
    (IF Len(image_transitions_1(info)) > 0
        THEN <<cmd_image_transitions(slot, image_transitions_1(info))>>
        ELSE <<>>)
    \o <<Call("cmd_begin_rendering", slot, rendering_info(info, table, area)),
         Call("draw_callback", slot, info)>>
    \o [k \in 1 .. Len(f) |-> Call(f[k], slot, <<>>)]
    \o <<Call("cmd_end_rendering", slot, <<>>)>>
    \o (IF Len(image_transitions_2(info)) > 0
        THEN <<cmd_image_transitions(slot, image_transitions_2(info))>>
        ELSE <<>>)

\* The commands recorded between a successful begin and the submission:
\* lines 171-212 of primary_renderer.rs, the callback f and the two recorder
\* drops included.
RecordedCommands(slot, info, table, area, f) ==
    (IF Len(image_transitions_1(info)) > 0
        THEN <<cmd_image_transitions(slot, image_transitions_1(info))>>
        ELSE <<>>)
    \o <<Call("cmd_begin_rendering", slot, rendering_info(info, table, area)),
         Call("draw_callback", slot, info)>>
    \o [k \in 1 .. Len(f) |-> Call(f[k], slot, <<>>)]
    \o <<Call("cmd_end_rendering", slot, <<>>)>>
    \o (IF Len(image_transitions_2(info)) > 0
        THEN <<cmd_image_transitions(slot, image_transitions_2(info))>>
        ELSE <<>>)
    \o <<Call("end_command_buffer", slot, <<>>)>>

\* variant: the table is grown with the new value instead of None
set_clear_value_fill(table, index, value) ==
    LET resized ==
            IF Len(table) <= index
            THEN table \o [k \in 1 .. (index + 1 - Len(table)) |-> value]
            ELSE table
    IN  [resized EXCEPT ![index + 1] = value]

\* PrimaryRenderer::set_clear_value
set_clear_value(table, index, value) ==
    LET resized ==
            IF Len(table) <= index
            THEN table \o [k \in 1 .. (index + 1 - Len(table)) |-> None]
            ELSE table
    IN  [resized EXCEPT ![index + 1] = value]


----------------------------------------------------------------------------
(* Control flow decided by results *)

\* wait_for_fences(&[fence], true, u64::MAX) can return success only once
\* the fence is signalled; it can return an error (device lost, out of
\* memory) whatever the fence
WaitForFences(signalled, ok) == ok => signalled

\* device.reset_fences: the fence is unsignalled when the call succeeds and
\* is left as it was when the call returns an error
ResetFences(signalled, ok) == IF ok THEN FALSE ELSE signalled

\* variant: the prelude's error is ignored and the callback runs anyway
AfterPreludeIgnoreError(result) == "begin"

\* RenderTargetExt::render_frame: a failed prelude returns at once
AfterPrelude(result) == IF result.ok THEN "begin" ELSE "end"

\* variant: a closure that returned early also skips the postlude
AfterBeginSkipPostlude(ok) == IF ok THEN "record" ELSE "end"

\* the closure: a failed begin returns from the closure, and render_frame
\* goes on to the postlude
AfterBegin(ok) == IF ok THEN "record" ELSE "postlude"

\* variant: a failed present ends the program
AfterPostludePropagate(ok) == IF ok THEN "end" ELSE "failed"

\* render_frame_postlude discards the present result and returns to
\* render_frame, which returns to render_to_target
AfterPostlude(ok) == "end"

\* variant: the cursor is never advanced
NextFrameStuck(cur) == cur

\* PrimaryRenderer::end_frame
NextFrame(cur) == (cur + 1) % MAX_FRAMES_IN_FLIGHT

----------------------------------------------------------------------------
(* The round trip harness: a mock target and device that count *)

NewHarness == Some([frames |-> 0, submits |-> 0, presents |-> 0, cursors |-> <<>>])

HarnessAllowsFrame ==
    IF harness = None THEN TRUE ELSE Unwrap(harness).frames < MaxFrames

CountCursor(h, slot) ==
    IF h = None THEN h
    ELSE Some([Unwrap(h) EXCEPT !.cursors = Append(@, slot)])
CountSubmit(h) ==
    IF h = None THEN h ELSE Some([Unwrap(h) EXCEPT !.submits = @ + 1])
CountPresent(h) ==
    IF h = None THEN h ELSE Some([Unwrap(h) EXCEPT !.presents = @ + 1])
CountFrame(h) ==
    IF h = None THEN h ELSE Some([Unwrap(h) EXCEPT !.frames = @ + 1])

----------------------------------------------------------------------------
(* The device side of the calls, kept when it is observed (device # None):  *)
(* binary semaphores, the presentation engine's queued waits, the batches   *)
(* in flight.  The CPU thread never reads any of it.                        *)

NewDevice ==
    Some([image_available |-> [s \in Slots |-> FALSE],
          render_finished |-> [s \in Slots |-> FALSE],
          present_wait    |-> [s \in Slots |-> FALSE],
          in_flight       |-> 0,
          batches         |-> [s \in Slots |-> <<>>]])

\* the commands a cycle's log put into the command buffer
CommandOps == {"cmd_pipeline_barrier2", "cmd_begin_rendering", "cmd_bind_pipeline",
               "cmd_draw", "cmd_end_rendering"}
CommandBufferContents(log) == SelectSeq(log, LAMBDA c : c.op \in CommandOps)

\* acquire_next_image with the slot's image_available: a signal is queued
DeviceAcquire(d, slot, ok) ==
    IF d = None \/ ~ok THEN d
    ELSE Some([Unwrap(d) EXCEPT !.image_available[slot] = TRUE])

\* queue_submit of the slot's command buffer: one more batch in flight
DeviceSubmit(d, slot, ok, commands) ==
    IF d = None \/ ~ok THEN d
    ELSE Some([Unwrap(d) EXCEPT !.in_flight = @ + 1,
                                !.batches[slot] = commands])

\* the batch of the slot has run: it consumed image_available and signalled
\* render_finished
DeviceFinish(d, slot) ==
    IF d = None THEN d
    ELSE Some([Unwrap(d) EXCEPT !.image_available[slot] = FALSE,
                                !.render_finished[slot] = TRUE,
                                !.in_flight = @ - 1,
                                !.batches[slot] = <<>>])

\* queue_present waiting on the slot's render_finished: a wait is queued
DevicePresent(d, slot, ok) ==
    IF d = None \/ ~ok THEN d
    ELSE Some([Unwrap(d) EXCEPT !.present_wait[slot] = TRUE])

\* the presentation engine executed the queued wait
DevicePresented(d, slot) ==
    Some([Unwrap(d) EXCEPT !.present_wait[slot] = FALSE,
                           !.render_finished[slot] = FALSE])

----------------------------------------------------------------------------
(* Initial state: PrimaryRenderer::new *)

NeverCalled == <<>>

\* variant: the flag is ignored and the fence is created unsignalled
create_fence_unsignaled(signaled) == FALSE

\* RenderSystem::create_fence: the new fence is signalled iff asked so
create_fence(signaled) == signaled

PrimaryRenderer_new ==
    /\ current_frame = 0
    /\ fences = [s \in Slots |-> create_fence(TRUE)]
    /\ clear_values = <<>>
    /\ render_area = None
    /\ gpu_pending = [s \in Slots |-> FALSE]
    /\ pc = "idle"
    /\ render_info = None
    /\ calls = <<>>
    /\ last_clear = [i \in 0 .. MaxIndex |-> NeverCalled]
    /\ last_area = NeverCalled
    /\ last_outcome = [s \in Slots |-> "none"]

Init == PrimaryRenderer_new /\ harness = None /\ device = None

----------------------------------------------------------------------------
(* Actions *)

Config == <<clear_values, render_area, last_clear, last_area>>

\* the application calls render_to_target
RenderToTarget ==
    /\ pc = "idle"
    /\ HarnessAllowsFrame
    /\ pc' = "wait"
    /\ UNCHANGED <<current_frame, fences, gpu_pending, render_info, calls,
                   last_outcome, harness, device, Config>>

\* PrimaryRenderer::begin_frame, first call: wait on the slot's fence and
\* discard the result; the log keeps whether the fence was signalled when
\* the wait returned
BeginFrameWait(wait_ok) ==
    /\ pc = "wait"
    /\ WaitForFences(fences[current_frame], wait_ok)
    /\ calls' = Append(calls,
                  Call("wait_for_fences", current_frame, fences[current_frame]))
    /\ pc' = "reset"
    /\ UNCHANGED <<current_frame, fences, gpu_pending, render_info, last_outcome,
                   harness, device, Config>>

\* PrimaryRenderer::begin_frame, second call: reset the slot's fence and
\* discard the result
BeginFrameReset(reset_ok) ==
    /\ pc = "reset"
    /\ fences' = [fences EXCEPT ![current_frame] = ResetFences(@, reset_ok)]
    /\ calls' = Append(calls, Call("reset_fences", current_frame, reset_ok))
    /\ harness' = CountCursor(harness, current_frame)
    /\ pc' = "acquire"
    /\ UNCHANGED <<current_frame, gpu_pending, render_info, last_outcome, device,
                   Config>>

\* PrimaryRenderer::begin_frame: the two calls, the GPU working in between
BeginFrame(wait_ok, reset_ok) ==
    \/ BeginFrameWait(wait_ok)
    \/ BeginFrameReset(reset_ok)

\* RenderTarget::render_frame_prelude, called by render_frame with the
\* current slot's FrameSyncInfo
Prelude(result) ==
    /\ pc = "acquire"
    /\ calls' = Append(calls,
                  Call("render_frame_prelude", current_frame,
                       [semaphore |-> FrameSyncInfo(current_frame).image_available,
                        ok |-> result.ok,
                        info |-> result.info]))
    /\ render_info' = result.info
    /\ pc' = AfterPrelude(result)
    /\ last_outcome' = IF result.ok THEN last_outcome
                       ELSE [last_outcome EXCEPT ![current_frame] = "acquire_failed"]
    /\ device' = DeviceAcquire(device, current_frame, result.ok)
    /\ UNCHANGED <<current_frame, fences, gpu_pending, harness, Config>>

\* CommandBuffer::begin on the current slot's command buffer
CmdBegin(ok) ==
    /\ pc = "begin"
    /\ calls' = Append(calls,
                  Call("begin_command_buffer", current_frame,
                       [flags |-> "ONE_TIME_SUBMIT", ok |-> ok]))
    /\ pc' = AfterBegin(ok)
    /\ last_outcome' = IF ok THEN last_outcome
                       ELSE [last_outcome EXCEPT ![current_frame] = "begin_failed"]
    /\ UNCHANGED <<current_frame, fences, gpu_pending, render_info, harness, device,
                   Config>>

\* variant: the recording takes the render area override out of the renderer
RecordTakesArea(f) ==
    /\ pc = "record"
    /\ calls' = calls \o RecordedCommands(current_frame, Unwrap(render_info),
                                          clear_values, render_area, f)
    /\ pc' = "submit"
    /\ render_area' = None
    /\ UNCHANGED <<current_frame, fences, gpu_pending, render_info, last_outcome,
                   harness, device, clear_values, last_clear, last_area>>

\* the recording: barriers, rendering scope, callback, recorder drops
Record(f) ==
    /\ pc = "record"
    /\ calls' = calls \o RecordedCommands(current_frame, Unwrap(render_info),
                                          clear_values, render_area, f)
    /\ pc' = "submit"
    /\ UNCHANGED <<current_frame, fences, gpu_pending, render_info, last_outcome,
                   harness, device, Config>>

\* device.queue_submit; its result is discarded
QueueSubmit(ok) ==
    /\ pc = "submit"
    /\ calls' = Append(calls,
                  Call("queue_submit", current_frame,
                       [command_buffer |-> current_frame,
                        wait_semaphores |-> <<FrameSyncInfo(current_frame).image_available>>,
                        wait_dst_stage_mask |-> <<"TOP_OF_PIPE">>,
                        signal_semaphores |-> <<FrameSyncInfo(current_frame).render_finished>>,
                        fence |-> current_frame,
                        ok |-> ok]))
    /\ gpu_pending' = IF ok THEN [gpu_pending EXCEPT ![current_frame] = TRUE]
                      ELSE gpu_pending
    /\ last_outcome' = [last_outcome EXCEPT ![current_frame] =
                            IF ok THEN "submitted" ELSE "submit_failed"]
    /\ harness' = CountSubmit(harness)
    /\ device' = DeviceSubmit(device, current_frame, ok, CommandBufferContents(calls))
    /\ pc' = "postlude"
    /\ UNCHANGED <<current_frame, fences, render_info, Config>>

\* RenderTarget::render_frame_postlude; a present failure is discarded
Postlude(ok) ==
    /\ pc = "postlude"
    /\ calls' = Append(calls,
                  Call("render_frame_postlude", current_frame,
                       [image_index |-> Unwrap(render_info).image_index,
                        wait_semaphores |-> <<FrameSyncInfo(current_frame).render_finished>>,
                        ok |-> ok]))
    /\ render_info' = None
    /\ harness' = CountPresent(harness)
    /\ device' = DevicePresent(device, current_frame, ok)
    /\ pc' = AfterPostlude(ok)
    /\ UNCHANGED <<current_frame, fences, gpu_pending, last_outcome, Config>>

\* PrimaryRenderer::end_frame, then render_to_target returns
EndFrame ==
    /\ pc = "end"
    /\ current_frame' = NextFrame(current_frame)
    /\ harness' = CountFrame(harness)
    /\ pc' = "idle"
    /\ calls' = <<>>
    /\ UNCHANGED <<fences, gpu_pending, render_info, last_outcome, device, Config>>

\* the GPU finishes the batch submitted on a slot and signals its fence
GpuComplete(slot) ==
    /\ gpu_pending[slot]
    /\ gpu_pending' = [gpu_pending EXCEPT ![slot] = FALSE]
    /\ fences' = [fences EXCEPT ![slot] = TRUE]
    /\ device' = DeviceFinish(device, slot)
    /\ UNCHANGED <<current_frame, pc, render_info, calls, last_outcome, harness, Config>>

\* the presentation engine executes the wait a present queued on the slot's
\* render_finished, once that semaphore is signalled
PresentComplete(slot) ==
    /\ device # None
    /\ Unwrap(device).present_wait[slot]
    /\ Unwrap(device).render_finished[slot]
    /\ device' = DevicePresented(device, slot)
    /\ UNCHANGED <<current_frame, fences, gpu_pending, pc, render_info, calls,
                   last_outcome, harness, Config>>

\* PrimaryRenderer::set_clear_value, between frames
SetClearValue(index, value) ==
    /\ pc = "idle"
    /\ clear_values' = set_clear_value(clear_values, index, value)
    /\ last_clear' = [last_clear EXCEPT ![index] = Some(value)]
    /\ UNCHANGED <<current_frame, fences, render_area, gpu_pending, pc,
                   render_info, calls, last_area, last_outcome, harness, device>>

\* PrimaryRenderer::set_render_area, between frames
SetRenderArea(area) ==
    /\ pc = "idle"
    /\ render_area' = area
    /\ last_area' = Some(area)
    /\ UNCHANGED <<current_frame, fences, clear_values, gpu_pending, pc,
                   render_info, calls, last_clear, last_outcome, harness, device>>

AcquireResults == {Err} \cup {Ok(info) : info \in TargetFrames}

Next ==
    \/ RenderToTarget
    \/ \E wait_ok \in BOOLEAN, reset_ok \in BOOLEAN : BeginFrame(wait_ok, reset_ok)
    \/ \E result \in AcquireResults : Prelude(result)
    \/ \E ok \in BOOLEAN : CmdBegin(ok)
    \/ \E f \in Callbacks : Record(f)
    \/ \E ok \in BOOLEAN : QueueSubmit(ok)
    \/ \E ok \in BOOLEAN : Postlude(ok)
    \/ EndFrame
    \/ \E slot \in Slots : GpuComplete(slot)

Spec == Init /\ [][Next]_vars

----------------------------------------------------------------------------
(* The loop of an application that changes the clear values and the render *)
(* area between frames.  The fence reset, begin recording and the         *)
(* submission succeed.                                                     *)

NextSettings ==
    \/ RenderToTarget
    \/ \E wait_ok \in BOOLEAN : BeginFrame(wait_ok, TRUE)
    \/ \E result \in AcquireResults : Prelude(result)
    \/ CmdBegin(TRUE)
    \/ \E f \in Callbacks : Record(f)
    \/ QueueSubmit(TRUE)
    \/ \E ok \in BOOLEAN : Postlude(ok)
    \/ EndFrame
    \/ \E slot \in Slots : GpuComplete(slot)
    \/ \E index \in 0 .. MaxIndex, value \in ClearOptions : SetClearValue(index, value)
    \/ \E area \in AreaOptions : SetRenderArea(area)

SpecSettings == Init /\ [][NextSettings]_vars


----------------------------------------------------------------------------
(* The same loop when only the acquisition can fail; the CPU thread keeps  *)
(* running and the GPU finishes every batch it was given.                  *)

CpuStep ==
    \/ BeginFrame(TRUE, TRUE)
    \/ \E result \in AcquireResults : Prelude(result)
    \/ CmdBegin(TRUE)
    \/ \E f \in Callbacks : Record(f)
    \/ QueueSubmit(TRUE)
    \/ Postlude(TRUE)
    \/ EndFrame

NextFair ==
    \/ RenderToTarget
    \/ CpuStep
    \/ \E slot \in Slots : GpuComplete(slot)

FairSpec ==
    /\ Init
    /\ [][NextFair]_vars
    /\ WF_vars(CpuStep)
    /\ \A slot \in Slots : WF_vars(GpuComplete(slot))

----------------------------------------------------------------------------
(* Round trip scenario: a mock target that always succeeds with one        *)
(* swapchain-like attachment, a counting harness, MaxFrames frames.        *)

InitRoundTrip == PrimaryRenderer_new /\ harness = NewHarness /\ device = None

NextRoundTrip ==
    \/ RenderToTarget
    \/ BeginFrame(TRUE, TRUE)
    \/ \E idx \in {0, 1} : Prelude(Ok(SwapchainFrame(idx)))
    \/ CmdBegin(TRUE)
    \/ \E f \in Callbacks : Record(f)
    \/ QueueSubmit(TRUE)
    \/ Postlude(TRUE)
    \/ EndFrame
    \/ \E slot \in Slots : GpuComplete(slot)

SpecRoundTrip == InitRoundTrip /\ [][NextRoundTrip]_vars

----------------------------------------------------------------------------
(* Recording of one frame for every frame description: the first cycle of  *)
(* a new renderer, after the target returned the description.              *)

InitRecord ==
    \E info \in AllFrames :
        /\ current_frame = 0
        /\ fences = [s \in Slots |-> s # 0]
        /\ clear_values = <<>>
        /\ render_area = None
        /\ gpu_pending = [s \in Slots |-> FALSE]
        /\ pc = "begin"
        /\ render_info = Some(info)
        /\ calls = <<Call("wait_for_fences", 0, TRUE),
                     Call("reset_fences", 0, TRUE),
                     Call("render_frame_prelude", 0,
                          [semaphore |-> FrameSyncInfo(0).image_available,
                           ok |-> TRUE,
                           info |-> Some(info)])>>
        /\ last_clear = [i \in 0 .. MaxIndex |-> NeverCalled]
        /\ last_area = NeverCalled
        /\ last_outcome = [s \in Slots |-> "none"]
        /\ harness = None
        /\ device = None

NextRecord ==
    \/ CmdBegin(TRUE)
    \/ \E f \in Callbacks : Record(f)
    \/ QueueSubmit(TRUE)
    \/ Postlude(TRUE)
    \/ EndFrame
    \/ \E slot \in Slots : GpuComplete(slot)

SpecRecord == InitRecord /\ [][NextRecord]_vars


----------------------------------------------------------------------------
(* The loop with the device side observed: every outcome of acquire, begin, *)
(* submit and present, the GPU and the presentation engine working at their *)
(* own pace.  The fence waits and the fence resets return success.         *)

InitAsync == PrimaryRenderer_new /\ harness = None /\ device = NewDevice

NextAsync ==
    \/ RenderToTarget
    \/ BeginFrame(TRUE, TRUE)
    \/ \E result \in AcquireResults : Prelude(result)
    \/ \E ok \in BOOLEAN : CmdBegin(ok)
    \/ \E f \in Callbacks : Record(f)
    \/ \E ok \in BOOLEAN : QueueSubmit(ok)
    \/ \E ok \in BOOLEAN : Postlude(ok)
    \/ EndFrame
    \/ \E slot \in Slots : GpuComplete(slot)
    \/ \E slot \in Slots : PresentComplete(slot)

SpecAsync == InitAsync /\ [][NextAsync]_vars

----------------------------------------------------------------------------
(* One frame of a configured renderer: the application has set every entry  *)
(* of a clear-value table and the render area and called render_to_target   *)
(* for the first time; after that call it changes the configuration while   *)
(* the frame is on the device.                                              *)

ClearTables == UNION {[1 .. n -> ClearOptions] : n \in 0 .. MaxIndex + 1}

InitConfigured ==
    \E table \in ClearTables, area \in AreaOptions :
        /\ current_frame = 0
        /\ fences = [s \in Slots |-> TRUE]
        /\ clear_values = table
        /\ render_area = area
        /\ gpu_pending = [s \in Slots |-> FALSE]
        /\ pc = "wait"
        /\ render_info = None
        /\ calls = <<>>
        /\ last_clear = [i \in 0 .. MaxIndex |->
                            IF i < Len(table) THEN Some(table[i + 1]) ELSE NeverCalled]
        /\ last_area = Some(area)
        /\ last_outcome = [s \in Slots |-> "none"]
        /\ harness = None
        /\ device = NewDevice

NextConfigured ==
    \/ \E wait_ok \in BOOLEAN, reset_ok \in BOOLEAN : BeginFrame(wait_ok, reset_ok)
    \/ \E result \in AcquireResults : Prelude(result)
    \/ \E ok \in BOOLEAN : CmdBegin(ok)
    \/ \E f \in Callbacks : Record(f)
    \/ \E ok \in BOOLEAN : QueueSubmit(ok)
    \/ \E ok \in BOOLEAN : Postlude(ok)
    \/ EndFrame
    \/ \E slot \in Slots : GpuComplete(slot)
    \/ \E slot \in Slots : PresentComplete(slot)
    \/ \E index \in 0 .. MaxIndex, value \in ClearOptions : SetClearValue(index, value)
    \/ \E area \in AreaOptions : SetRenderArea(area)

SpecConfigured == InitConfigured /\ [][NextConfigured]_vars

----------------------------------------------------------------------------
(* The program of main.rs: the renderer drives a SwapchainRenderTarget and  *)
(* at the end of main the target, then the renderer, are dropped.           *)

SwapchainImages == 0 .. MaxImages - 1

\* acquire_next_image fails or yields an image index
AcquireOutcomes == {None} \cup {Some(i) : i \in SwapchainImages}

\* SwapchainRenderTarget::render_frame_prelude
render_frame_prelude(acquired) ==
    IF acquired = None THEN Err ELSE Ok(SwapchainFrame(Unwrap(acquired)))

\* a destroy call on an object; it belongs to no slot
Destroy(op, handle) == Call(op, None, handle)

DestroyOps == {"destroy_image_view", "destroy_swapchain", "destroy_window",
               "destroy_surface", "destroy_semaphore", "destroy_fence",
               "destroy_device", "destroy_instance"}

\* variant: the swapchain is destroyed before its image views
SwapchainRenderTarget_dropChainFirst ==
    <<Destroy("destroy_swapchain", <<"swapchain", 0>>)>>
    \o [k \in 1 .. MaxImages |-> Destroy("destroy_image_view", <<"image_view", k - 1>>)]

\* Drop for SwapchainRenderTarget: the image views in order, then the swapchain
SwapchainRenderTarget_drop ==
    [k \in 1 .. MaxImages |-> Destroy("destroy_image_view", <<"image_view", k - 1>>)]
    \o <<Destroy("destroy_swapchain", <<"swapchain", 0>>)>>

\* the fields of Window are dropped in declaration order: the PWindow, the
\* receiver, the SurfaceInfo (whose Drop destroys the surface)
Window_drop ==
    <<Destroy("destroy_window", <<"window", 0>>),
      Destroy("destroy_surface", <<"surface", 0>>)>>

\* PrimaryRenderer has no Drop; its fields are handles and a device clone,
\* whose drops make no call
PrimaryRenderer_drop == <<>>

\* the semaphores and fences PrimaryRenderer::new created
SyncObjects ==
    UNION {{FrameSyncInfo(s).image_available, FrameSyncInfo(s).render_finished,
            <<"fence", s>>} : s \in Slots}

\* Drop for RenderSystem
RenderSystem_drop ==
    <<Destroy("destroy_device", <<"device", 0>>),
      Destroy("destroy_instance", <<"instance", 0>>)>>

\* device_wait_idle can return success only once no batch is unfinished; it
\* can return an error whatever the device does
DeviceWaitIdleReturns(pending, ok) == ok => \A s \in Slots : ~pending[s]

\* the render loop of main ends and main waits for the idle device,
\* discarding the result
DeviceWaitIdle(ok) ==
    /\ pc = "idle"
    /\ DeviceWaitIdleReturns(gpu_pending, ok)
    /\ calls' = Append(calls, Call("device_wait_idle", None, ok))
    /\ pc' = "loop_exited"
    /\ UNCHANGED <<current_frame, fences, gpu_pending, render_info, last_outcome,
                   harness, device, Config>>

\* main returns: window_target is dropped, its Drop runs, then its fields
\* (the window first) are dropped.  The pipeline and shader objects main
\* built for its draw callback, dropped before the target, are left out.
DropTarget ==
    /\ pc = "loop_exited"
    /\ calls' = calls \o SwapchainRenderTarget_drop \o Window_drop
    /\ pc' = "target_dropped"
    /\ UNCHANGED <<current_frame, fences, gpu_pending, render_info, last_outcome,
                   harness, device, Config>>

\* then primary_renderer is dropped
DropRenderer ==
    /\ pc = "target_dropped"
    /\ calls' = calls \o PrimaryRenderer_drop
    /\ pc' = "dropped"
    /\ UNCHANGED <<current_frame, fences, gpu_pending, render_info, last_outcome,
                   harness, device, Config>>

\* then render_system is dropped
DropSystem ==
    /\ pc = "dropped"
    /\ calls' = calls \o RenderSystem_drop
    /\ pc' = "system_dropped"
    /\ UNCHANGED <<current_frame, fences, gpu_pending, render_info, last_outcome,
                   harness, device, Config>>

NextSwapchain ==
    \/ RenderToTarget
    \/ \E wait_ok \in BOOLEAN, reset_ok \in BOOLEAN : BeginFrame(wait_ok, reset_ok)
    \/ \E acquired \in AcquireOutcomes : Prelude(render_frame_prelude(acquired))
    \/ \E ok \in BOOLEAN : CmdBegin(ok)
    \/ \E f \in Callbacks : Record(f)
    \/ \E ok \in BOOLEAN : QueueSubmit(ok)
    \/ \E ok \in BOOLEAN : Postlude(ok)
    \/ EndFrame
    \/ \E slot \in Slots : GpuComplete(slot)
    \/ \E ok \in BOOLEAN : DeviceWaitIdle(ok)
    \/ DropTarget
    \/ DropRenderer
    \/ DropSystem

\* main before its render loop: the renderer and the target are built and
\* the clear colour of attachment 0 has been set
InitSwapchain ==
    \E value \in ClearValues :
        /\ current_frame = 0
        /\ fences = [s \in Slots |-> create_fence(TRUE)]
        /\ clear_values = set_clear_value(<<>>, 0, Some(value))
        /\ render_area = None
        /\ gpu_pending = [s \in Slots |-> FALSE]
        /\ pc = "idle"
        /\ render_info = None
        /\ calls = <<>>
        /\ last_clear = [i \in 0 .. MaxIndex |->
                            IF i = 0 THEN Some(Some(value)) ELSE NeverCalled]
        /\ last_area = NeverCalled
        /\ last_outcome = [s \in Slots |-> "none"]
        /\ harness = None
        /\ device = None

SpecSwapchain == InitSwapchain /\ [][NextSwapchain]_vars

----------------------------------------------------------------------------
(* Reading the calls of the running cycle *)

Positions(op) == {i \in 1 .. Len(calls) : calls[i].op = op}
Made(op) == Positions(op) # {}
Times(op) == Cardinality(Positions(op))
PositionOf(op) == CHOOSE i \in Positions(op) : TRUE

PreludeFailed ==
    \E i \in Positions("render_frame_prelude") : ~calls[i].arg.ok

OtherSlot == 1 - current_frame

----------------------------------------------------------------------------
(* Claims *)

\* C1: fence throttle.  Whenever begin recording is about to be called, or
\* recording is open, or the recorded buffer awaits submission, on slot
\* current_frame, the wait of this cycle's begin_frame saw that slot's fence
\* signalled and no batch submitted earlier on that slot is still pending on
\* the GPU.
C1_FenceThrottle ==
    pc \in {"begin", "record", "submit"} =>
        /\ ~gpu_pending[current_frame]
        /\ calls[1] = Call("wait_for_fences", current_frame, TRUE)

\* C2: skip on failed acquire.  In a cycle whose prelude failed nothing is
\* recorded, nothing is submitted, the callback is not invoked and the
\* postlude is not called; the cycle goes straight on to end_frame, after
\* which render_to_target returns.
C2_SkipOnFailedAcquire ==
    PreludeFailed =>
        /\ \A i \in 1 .. Len(calls) :
              calls[i].op \in {"wait_for_fences", "reset_fences", "render_frame_prelude"}
        /\ render_info = None
        /\ pc = "end"

\* C2 witness: a cycle whose prelude failed has come to its end_frame call
\* with nothing but the wait, the reset and the prelude done.
C2_Witness == pc = "end" /\ PreludeFailed /\ Len(calls) = 3


\* C3: one fence signal per reset.  When a slot's fence is waited on again
\* after a cycle on that slot that reset it and then failed to acquire, the
\* fence has been signalled again or a submitted batch is going to signal it.
C3_ResetIsSignalledBeforeNextWait ==
    (pc = "wait" /\ last_outcome[current_frame] = "acquire_failed") =>
        (fences[current_frame] \/ gpu_pending[current_frame])

\* C4: a failed acquisition cancels only that frame.  With the CPU thread
\* running, recording and submission succeeding and the GPU finishing every
\* batch, every call of render_to_target that reaches its fence wait returns.
C4_LaterCallsTerminate == (pc = "wait") ~> (pc = "idle")

\* C5: round trip.  With a target that always succeeds, after k calls have
\* returned there were exactly k submissions and k presents; a finished cycle
\* made exactly one submission and then exactly one present; the i-th frame
\* (from 0) used slot i mod 2.
C5_RoundTrip ==
    LET h == Unwrap(harness) IN
    /\ \A i \in 1 .. Len(h.cursors) : h.cursors[i] = (i - 1) % 2
    /\ pc = "idle" =>
          /\ h.presents = h.frames
          /\ h.submits = h.frames
          /\ Len(h.cursors) = h.frames
    /\ pc = "end" =>
          /\ Times("queue_submit") = 1
          /\ Times("render_frame_postlude") = 1
          /\ PositionOf("queue_submit") < PositionOf("render_frame_postlude")
          /\ h.presents = h.frames + 1
          /\ h.submits = h.frames + 1

\* C5 witness: five calls have returned, with five presents and the cursors
\* 0,1,0,1,0.
C5_Witness ==
    /\ pc = "idle"
    /\ Unwrap(harness).frames = 5
    /\ Unwrap(harness).presents = 5
    /\ Unwrap(harness).cursors = <<0, 1, 0, 1, 0>>


----------------------------------------------------------------------------
(* Reading the recorded frame *)

Recorded == Made("cmd_begin_rendering")

\* the frame description the closure was given
RecordedFrame == calls[PositionOf("draw_callback")].arg

\* the RenderingInfo the pass was opened with
RecordedPass == calls[PositionOf("cmd_begin_rendering")].arg

PrePassBarrierCalls ==
    {i \in Positions("cmd_pipeline_barrier2") : i < PositionOf("cmd_begin_rendering")}

PostPassBarrierCalls ==
    {i \in Positions("cmd_pipeline_barrier2") : i > PositionOf("cmd_end_rendering")}

\* the barriers on an image among the barrier commands at the given positions
BarriersOn(image, positions) ==
    {<<i, j>> \in positions \X (1 .. MaxAttachments + 1) :
        j <= Len(calls[i].arg) /\ calls[i].arg[j].image = image}

DiffersFromCanonical(state) ==
    \/ state.layout # "COLOR_ATTACHMENT_OPTIMAL"
    \/ state.access # "COLOR_ATTACHMENT_WRITE"
    \/ state.queue_family # 0

\* C6: pre-pass barrier elision.  In a recorded frame, an attachment has a
\* barrier before the pass exactly when its declared initial state differs
\* from (COLOR_ATTACHMENT_OPTIMAL, COLOR_ATTACHMENT_WRITE, family 0) in some
\* component, and that one barrier goes from the declared initial state to
\* the canonical state; no barrier command is recorded before the pass when
\* no attachment needs one, and never an empty one.
C6_PrePassBarriers ==
    Recorded =>
        LET atts == RecordedFrame.color_attachments IN
        /\ \A k \in 1 .. Len(atts) :
              LET on == BarriersOn(atts[k].image, PrePassBarrierCalls) IN
              IF DiffersFromCanonical(atts[k].initial_state)
              THEN /\ Cardinality(on) = 1
                   /\ \A p \in on :
                        LET b == calls[p[1]].arg[p[2]] IN
                        /\ b.old_layout = atts[k].initial_state.layout
                        /\ b.src_access_mask = atts[k].initial_state.access
                        /\ b.src_queue_family_index = atts[k].initial_state.queue_family
                        /\ b.new_layout = "COLOR_ATTACHMENT_OPTIMAL"
                        /\ b.dst_access_mask = "COLOR_ATTACHMENT_WRITE"
                        /\ b.dst_queue_family_index = 0
              ELSE on = {}
        /\ (\A k \in 1 .. Len(atts) : ~DiffersFromCanonical(atts[k].initial_state))
              => PrePassBarrierCalls = {}
        /\ \A i \in PrePassBarrierCalls : Len(calls[i].arg) > 0

\* C6 witness: two attachments, the first in the canonical state, the second
\* differing from it in the queue family alone; one barrier command with one
\* barrier, on the second image.
C6_Witness ==
    /\ pc = "submit"
    /\ Len(RecordedFrame.color_attachments) = 2
    /\ RecordedFrame.color_attachments[1].initial_state = Canonical
    /\ RecordedFrame.color_attachments[2].initial_state =
          State("COLOR_ATTACHMENT_OPTIMAL", "COLOR_ATTACHMENT_WRITE", 1)
    /\ Cardinality(PrePassBarrierCalls) = 1
    /\ \A i \in PrePassBarrierCalls :
          Len(calls[i].arg) = 1 /\ calls[i].arg[1].image = 1

\* C7: post-pass barrier elision.  In a recorded frame, an attachment has a
\* barrier after the pass exactly when its declared final state differs from
\* the canonical state, and that one barrier goes from the canonical state to
\* the declared final state; no barrier command is recorded after the pass
\* when no attachment needs one, and never an empty one.
C7_PostPassBarriers ==
    Recorded =>
        LET atts == RecordedFrame.color_attachments IN
        /\ \A k \in 1 .. Len(atts) :
              LET on == BarriersOn(atts[k].image, PostPassBarrierCalls) IN
              IF DiffersFromCanonical(atts[k].final_state)
              THEN /\ Cardinality(on) = 1
                   /\ \A p \in on :
                        LET b == calls[p[1]].arg[p[2]] IN
                        /\ b.old_layout = "COLOR_ATTACHMENT_OPTIMAL"
                        /\ b.src_access_mask = "COLOR_ATTACHMENT_WRITE"
                        /\ b.src_queue_family_index = 0
                        /\ b.new_layout = atts[k].final_state.layout
                        /\ b.dst_access_mask = atts[k].final_state.access
                        /\ b.dst_queue_family_index = atts[k].final_state.queue_family
              ELSE on = {}
        /\ (\A k \in 1 .. Len(atts) : ~DiffersFromCanonical(atts[k].final_state))
              => PostPassBarrierCalls = {}
        /\ \A i \in PostPassBarrierCalls : Len(calls[i].arg) > 0

\* C7 witness: two attachments, the first ending in the canonical state, the
\* second in a state differing from it in the access alone; one barrier
\* command after the pass with one barrier, on the second image.
C7_Witness ==
    /\ pc = "submit"
    /\ Len(RecordedFrame.color_attachments) = 2
    /\ RecordedFrame.color_attachments[1].final_state = Canonical
    /\ RecordedFrame.color_attachments[2].final_state =
          State("COLOR_ATTACHMENT_OPTIMAL", "NONE", 0)
    /\ Cardinality(PostPassBarrierCalls) = 1
    /\ \A i \in PostPassBarrierCalls :
          Len(calls[i].arg) = 1 /\ calls[i].arg[1].image = 1


\* the cycle has recorded its frame and no setter can have run since
JustRecorded == pc \in {"submit", "postlude", "end"} /\ Recorded

\* the last argument set_clear_value was given for an index, if any
LastClearCall(i) == IF i \in DOMAIN last_clear THEN last_clear[i] ELSE NeverCalled

\* C8: clear vs. load.  In a recorded frame, attachment i is cleared to v if
\* the last set_clear_value(i, _) before the frame was Some(v); it is loaded
\* if set_clear_value(i, _) was never called or was last called with None;
\* it is stored in every case, and the pass has one entry per attachment.
C8_ClearOrLoad ==
    JustRecorded =>
        LET atts == RecordedPass.color_attachments IN
        /\ Len(atts) = Len(RecordedFrame.color_attachments)
        /\ \A k \in 1 .. Len(atts) :
              LET last == LastClearCall(k - 1) IN
              /\ atts[k].store_op = "STORE"
              /\ IF Len(last) = 1 /\ IsSome(Unwrap(last))
                 THEN /\ atts[k].load_op = "CLEAR"
                      /\ atts[k].clear_value = Unwrap(Unwrap(last))
                 ELSE atts[k].load_op = "LOAD"

\* C8 witness: a two attachment frame recorded after set_clear_value(0,
\* Some(1)) alone: the table has one entry, attachment 0 is cleared to 1 and
\* attachment 1, beyond the table, is loaded.
C8_Witness ==
    /\ pc = "submit"
    /\ last_clear[0] = Some(Some(1))
    /\ last_clear[1] = NeverCalled
    /\ Len(clear_values) = 1
    /\ Len(RecordedPass.color_attachments) = 2
    /\ RecordedPass.color_attachments[1].load_op = "CLEAR"
    /\ RecordedPass.color_attachments[1].clear_value = 1
    /\ RecordedPass.color_attachments[2].load_op = "LOAD"

\* C9: set_clear_value(i, x) changes entry i alone.  Every call leaves the
\* effective value (None beyond the table) of every other index as it was,
\* also when it grows the table, and makes the effective value at i be x.
C9_SetClearValueFrame ==
    [][\A index \in 0 .. MaxIndex, value \in ClearOptions :
          SetClearValue(index, value) =>
              /\ \A j \in 0 .. MaxIndex + 1 :
                    j # index =>
                        ClearValueAt(clear_values', j) = ClearValueAt(clear_values, j)
              /\ ClearValueAt(clear_values', index) = value]_vars

\* C9 witness: set_clear_value(1, Some(1)) grew the empty table past index
\* 0, which was never set and reads None.
C9_Witness ==
    /\ last_clear[0] = NeverCalled
    /\ last_clear[1] = Some(Some(1))
    /\ clear_values = <<None, Some(1)>>

\* C10: render area override.  In a recorded frame the pass's render area is
\* the rectangle of the last set_render_area call if that call gave Some(r),
\* and the full frame extent at offset (0, 0) if set_render_area was never
\* called or was last called with None.
C10_RenderArea ==
    JustRecorded =>
        RecordedPass.render_area =
            IF Len(last_area) = 1 /\ IsSome(Unwrap(last_area))
            THEN Unwrap(Unwrap(last_area))
            ELSE [offset |-> <<0, 0>>, extent |-> RecordedFrame.extent]

\* C10 witness: a frame recorded under the override (1, 1) 1x1, smaller than
\* the frame, on a slot that has been submitted before.
C10_Witness ==
    /\ pc = "submit"
    /\ last_area = Some(Some(Rect2D(<<1, 1>>, <<1, 1>>)))
    /\ RecordedPass.render_area = Rect2D(<<1, 1>>, <<1, 1>>)
    /\ last_outcome[current_frame] = "submitted"

----------------------------------------------------------------------------
(* Scopes of the command buffer, read off the calls of the running cycle *)

\* the state of the command buffer after one more call: "closed" (no
\* recording open), "recording", "rendering" (a rendering scope open inside
\* the recording), or "bad" once a begin or an end came out of turn
ScopeAfter(scope, c) ==
    IF c.op = "begin_command_buffer" THEN
        IF scope # "closed" THEN "bad"
        ELSE IF c.arg.ok THEN "recording" ELSE "closed"
    ELSE IF c.op = "cmd_begin_rendering" THEN
        IF scope = "recording" THEN "rendering" ELSE "bad"
    ELSE IF c.op = "cmd_end_rendering" THEN
        IF scope = "rendering" THEN "recording" ELSE "bad"
    ELSE IF c.op = "end_command_buffer" THEN
        IF scope = "recording" THEN "closed" ELSE "bad"
    ELSE scope

RECURSIVE Scope(_, _)
Scope(log, n) == IF n = 0 THEN "closed" ELSE ScopeAfter(Scope(log, n - 1), log[n])

ScopeOps == {"begin_command_buffer", "end_command_buffer",
             "cmd_begin_rendering", "cmd_end_rendering"}

\* C11: scoped recording always closes.  In the calls of a cycle, begin and
\* end recording alternate, begin and end rendering alternate inside one
\* recording, no end comes without its begin (none after a failed begin), all
\* of them are on the current slot's command buffer, and every scope a cycle
\* opened is closed again once the recording block is left: only while the
\* thread stands between the successful begin and the recording block's
\* commands is a recording open.
C11_ScopesClose ==
    /\ Scope(calls, Len(calls)) = (IF pc = "record" THEN "recording" ELSE "closed")
    /\ \A i \in 1 .. Len(calls) :
          calls[i].op \in ScopeOps => calls[i].slot = current_frame
    /\ pc \in {"submit", "postlude", "end"} =>
          /\ Times("end_command_buffer") =
                Cardinality({i \in Positions("begin_command_buffer") : calls[i].arg.ok})
          /\ Times("cmd_end_rendering") = Times("cmd_begin_rendering")

\* C11 witness: a callback that recorded nothing; both scopes were opened and
\* closed exactly once before the submission.
C11_Witness ==
    /\ pc = "submit"
    /\ ~Made("cmd_draw")
    /\ Times("cmd_begin_rendering") = 1 /\ Times("cmd_end_rendering") = 1
    /\ Times("end_command_buffer") = 1

----------------------------------------------------------------------------
(* The two phases of render_frame, read off the calls of the running cycle *)

PreludeCall == calls[PositionOf("render_frame_prelude")]
PostludeCall == calls[PositionOf("render_frame_postlude")]
PreludeSucceeded == Made("render_frame_prelude") /\ PreludeCall.arg.ok

\* the calls the closure handed to render_frame makes
ClosureOps == {"begin_command_buffer", "queue_submit"} \cup CommandOps
                \cup {"draw_callback", "end_command_buffer"}
ClosureCalls == {i \in 1 .. Len(calls) : calls[i].op \in ClosureOps}

\* C12: two-phase pairing of render_frame.  A cycle calls the prelude, the
\* closure and the postlude at most once each.  The closure and the postlude
\* only come after a successful prelude; the closure works on the frame
\* description the prelude returned; the postlude comes after every call of
\* the closure, gets the semaphores of the same FrameSyncInfo the prelude got
\* and the image index the prelude returned; and a cycle whose prelude
\* succeeded reaches end_frame with the closure entered once and the postlude
\* called once.  Hence presents alternate with successful acquires.
C12_TwoPhasePairing ==
    /\ Times("render_frame_prelude") <= 1
    /\ Times("begin_command_buffer") <= 1
    /\ Times("render_frame_postlude") <= 1
    /\ ClosureCalls # {} =>
          /\ PreludeSucceeded
          /\ \A i \in ClosureCalls : PositionOf("render_frame_prelude") < i
          /\ Made("begin_command_buffer")
          /\ \A i \in ClosureCalls : PositionOf("begin_command_buffer") <= i
    /\ Recorded => RecordedFrame = Unwrap(PreludeCall.arg.info)
    /\ Made("render_frame_postlude") =>
          /\ PreludeSucceeded
          /\ Made("begin_command_buffer")
          /\ \A i \in ClosureCalls : i < PositionOf("render_frame_postlude")
          /\ PositionOf("render_frame_postlude") = Len(calls)
          /\ \E s \in Slots :
                /\ PreludeCall.arg.semaphore = FrameSyncInfo(s).image_available
                /\ PostludeCall.arg.wait_semaphores = <<FrameSyncInfo(s).render_finished>>
          /\ PostludeCall.arg.image_index = Unwrap(PreludeCall.arg.info).image_index
    /\ (pc = "end" /\ PreludeSucceeded) =>
          /\ Times("begin_command_buffer") = 1
          /\ Times("render_frame_postlude") = 1
    /\ (pc = "end" /\ ~PreludeSucceeded) => ~Made("render_frame_postlude")

\* C12 witness: a cycle that acquired, recorded and submitted has called the
\* postlude and stands before end_frame.
C12_Witness ==
    /\ pc = "end"
    /\ PreludeSucceeded
    /\ Made("queue_submit")
    /\ Times("render_frame_postlude") = 1

----------------------------------------------------------------------------
(* Which slot's objects a cycle uses *)

SubmitCall == calls[PositionOf("queue_submit")]

\* C13: per-frame semaphore wiring.  In a cycle that submits there is one
\* submission; with s the slot whose fence the cycle waited on and reset
\* (the cursor), the submission waits on image_available of s, the semaphore
\* the prelude was handed, signals render_finished of s and the fence of s
\* and submits the command buffer of s; the postlude waits on render_finished
\* of s; every call of the cycle is on slot s.
C13_SlotWiring ==
    Made("queue_submit") =>
        LET s == calls[1].slot IN
        /\ Times("queue_submit") = 1
        /\ calls[1].op = "wait_for_fences"
        /\ s = current_frame
        /\ \A i \in 1 .. Len(calls) : calls[i].slot = s
        /\ PreludeCall.arg.semaphore = <<"image_available", s>>
        /\ SubmitCall.arg.wait_semaphores = << <<"image_available", s>> >>
        /\ SubmitCall.arg.signal_semaphores = << <<"render_finished", s>> >>
        /\ SubmitCall.arg.fence = s
        /\ SubmitCall.arg.command_buffer = s
        /\ SubmitCall.arg.ok => (gpu_pending[s] \/ fences[s])
        /\ Made("render_frame_postlude") =>
              PostludeCall.arg.wait_semaphores = << <<"render_finished", s>> >>

\* C13 witness: a cycle on slot 1 has submitted and presented.
C13_Witness ==
    /\ current_frame = 1
    /\ Made("queue_submit")
    /\ Made("render_frame_postlude")

----------------------------------------------------------------------------
(* Semaphores and batches on the device *)

Dev == Unwrap(device)

\* C14: slot exclusivity.  When the prelude hands the slot's image_available
\* to a new acquire, no signal of an earlier acquire on that semaphore is
\* still unconsumed; when a new submission is made that signals the slot's
\* render_finished, no batch of the slot is pending and no wait that an
\* earlier present queued on that semaphore is still to be executed.
C14_SlotExclusive ==
    [][ /\ (pc = "acquire" /\ pc' # "acquire") =>
              ~Dev.image_available[current_frame]
        /\ (pc = "submit" /\ pc' = "postlude") =>
              /\ ~gpu_pending[current_frame]
              /\ ~Dev.present_wait[current_frame] ]_vars

\* the slots with a submitted, unfinished batch
Unfinished == {s \in Slots : gpu_pending[s]}

\* C15: bounded run-ahead.  Never more than MAX_FRAMES_IN_FLIGHT batches are
\* submitted and unfinished; from the return of the fence wait until the
\* cycle's own submission, at most MAX_FRAMES_IN_FLIGHT - 1.
C15_BoundedRunAhead ==
    /\ Cardinality(Unfinished) <= MAX_FRAMES_IN_FLIGHT
    /\ pc \in {"reset", "acquire", "begin", "record", "submit"} =>
          Cardinality(Unfinished) <= MAX_FRAMES_IN_FLIGHT - 1

\* C16: render_to_target only reads the configuration.  A step that changes
\* the clear-value table or the render-area override is a setter call made
\* between frames, so the table and the override are the same when
\* render_to_target returns as when it was called, whatever the outcome; and
\* such a step changes nothing in the batches that were submitted before and
\* are still on the device.
C16_ConfigReadOnly ==
    [][ (clear_values' # clear_values \/ render_area' # render_area) =>
            /\ pc = "idle" /\ pc' = "idle"
            /\ last_clear' # last_clear \/ last_area' # last_area
            /\ Dev.batches' = Dev.batches
            /\ calls' = calls ]_vars

\* C16 witness: the batch still pending on the device was recorded with a
\* render area override (no frame has a 1 x 1 extent), and the override has
\* been removed by set_render_area since.
C16_Witness ==
    /\ pc = "idle"
    /\ \E s \in Slots :
          /\ gpu_pending[s]
          /\ \E k \in 1 .. Len(Dev.batches[s]) :
                /\ Dev.batches[s][k].op = "cmd_begin_rendering"
                /\ Dev.batches[s][k].arg.render_area.extent = <<1, 1>>
          /\ render_area = None
          /\ last_area = Some(None)

----------------------------------------------------------------------------
(* Lifetimes *)

DestroyedAt(handle) ==
    {i \in 1 .. Len(calls) : calls[i].op \in DestroyOps /\ calls[i].arg = handle}

\* C17: closed lifetime of the renderer's sync objects.  Once the renderer
\* has been dropped, every semaphore and fence PrimaryRenderer::new created
\* has been destroyed.
C17_SyncObjectsDestroyed ==
    pc \in {"dropped", "system_dropped"} => \A h \in SyncObjects : DestroyedAt(h) # {}

\* C18 as claimed: a successful swapchain acquire returns one attachment
\* declared (UNDEFINED, NONE, ignored queue family) at first and
\* (PRESENT_SRC_KHR, NONE, ignored queue family) at last, image and view at
\* the acquired index, image_index that index.
C18_AttachmentStatesIgnoredFamily ==
    render_info # None =>
        \E idx \in SwapchainImages :
            Unwrap(render_info) =
                [color_attachments |->
                    <<[image |-> idx, image_view |-> idx,
                       initial_state |-> [layout |-> "UNDEFINED", access |-> "NONE",
                                          queue_family |-> QUEUE_FAMILY_IGNORED],
                       final_state |-> [layout |-> "PRESENT_SRC_KHR", access |-> "NONE",
                                        queue_family |-> QUEUE_FAMILY_IGNORED]]>>,
                 extent |-> FrameExtent,
                 image_index |-> idx]

\* C18 amended: a successful swapchain acquire returns one attachment
\* declared (UNDEFINED, NONE, queue family 0) at first and (PRESENT_SRC_KHR,
\* NONE, queue family 0) at last, image and view at the acquired index,
\* image_index that index, extent the swapchain's.
C18_AttachmentStates ==
    render_info # None =>
        \E idx \in SwapchainImages :
            Unwrap(render_info) =
                [color_attachments |->
                    <<[image |-> idx, image_view |-> idx,
                       initial_state |-> [layout |-> "UNDEFINED", access |-> "NONE",
                                          queue_family |-> 0],
                       final_state |-> [layout |-> "PRESENT_SRC_KHR", access |-> "NONE",
                                        queue_family |-> 0]]>>,
                 extent |-> FrameExtent,
                 image_index |-> idx]

\* C18 witness: the last image of the swapchain was acquired.
C18_Witness ==
    /\ pc = "begin"
    /\ render_info # None
    /\ Unwrap(render_info).image_index = MaxImages - 1

\* C19: teardown order of the swapchain target.  Nothing is destroyed while
\* the target is in use; once it has been dropped, every image view, the
\* swapchain and the surface have been destroyed exactly once, every view
\* before the swapchain, and the swapchain before the window and before the
\* surface.
C19_TeardownOrder ==
    /\ pc \notin {"target_dropped", "dropped", "system_dropped"} =>
          \A i \in 1 .. Len(calls) : calls[i].op \notin DestroyOps
    /\ pc \in {"target_dropped", "dropped", "system_dropped"} =>
          /\ Times("destroy_image_view") = MaxImages
          /\ Times("destroy_swapchain") = 1
          /\ Times("destroy_surface") = 1
          /\ Times("destroy_window") = 1
          /\ \A k \in SwapchainImages :
                /\ Cardinality(DestroyedAt(<<"image_view", k>>)) = 1
                /\ \A i \in DestroyedAt(<<"image_view", k>>) :
                      i < PositionOf("destroy_swapchain")
          /\ PositionOf("destroy_swapchain") < PositionOf("destroy_surface")
          /\ PositionOf("destroy_swapchain") < PositionOf("destroy_window")

\* C19 witness: a frame was submitted on slot 0, the loop ended, the device
\* was waited idle and the target has been dropped.
C19_Witness ==
    /\ pc = "target_dropped"
    /\ current_frame = 1
    /\ last_outcome[0] = "submitted"
    /\ calls[1] = Call("device_wait_idle", None, TRUE)
    /\ \A s \in Slots : ~gpu_pending[s]
    /\ Made("destroy_surface")

----------------------------------------------------------------------------
(* Present failures *)

PresentFailed == Made("render_frame_postlude") /\ ~PostludeCall.arg.ok

\* C20: present failures are non-fatal.  Whatever queue_present returned,
\* the postlude returns to the end of the cycle leaving cursor, fences and
\* pending batches as they were, and the cycle then ends as every cycle
\* does: the cursor moves on by one slot, the fence handed to the submission
\* stays with its batch, and the thread is back where the next call starts.
C20_PresentFailureNonFatal ==
    [][ /\ (pc = "postlude" /\ pc' # pc) =>
              /\ pc' = "end"
              /\ render_info' = None
              /\ current_frame' = current_frame
              /\ fences' = fences /\ gpu_pending' = gpu_pending
        /\ (pc = "end" /\ Made("render_frame_postlude") /\ pc' # pc) =>
              /\ pc' = "idle"
              /\ current_frame' = (current_frame + 1) % MAX_FRAMES_IN_FLIGHT
              /\ fences' = fences /\ gpu_pending' = gpu_pending ]_vars

\* C20 witness: a cycle that submitted and whose present failed stands
\* before end_frame, its batch pending with the slot's fence.
C20_Witness ==
    /\ pc = "end"
    /\ PresentFailed
    /\ Made("queue_submit") /\ SubmitCall.arg.ok
    /\ gpu_pending[current_frame]

----------------------------------------------------------------------------
(* Order of the calls of a cycle *)

\* the calls of the cycle come in the order of the listed operations, each
\* of them made exactly once
InOrder(ops) ==
    /\ \A k \in 1 .. Len(ops) : Times(ops[k]) = 1
    /\ \A k \in 1 .. Len(ops) - 1 : PositionOf(ops[k]) < PositionOf(ops[k + 1])

CallbackCommands == Positions("cmd_bind_pipeline") \cup Positions("cmd_draw")

\* C21: order of events inside one successful frame.  A cycle that has
\* presented after a submission made, in this order and once each: fence
\* wait, fence reset, acquire, begin recording, begin rendering, the draw
\* callback, end rendering, end recording, submission, present; every
\* barrier command lies between begin recording and begin rendering or
\* between end rendering and end recording, at most one in each place; what
\* the callback recorded lies between the callback's start and end
\* rendering; and the cursor still names the cycle's slot, it advances only
\* afterwards.
C21_EventOrder ==
    (Made("queue_submit") /\ Made("render_frame_postlude")) =>
        /\ InOrder(<<"wait_for_fences", "reset_fences", "render_frame_prelude",
                     "begin_command_buffer", "cmd_begin_rendering", "draw_callback",
                     "cmd_end_rendering", "end_command_buffer", "queue_submit",
                     "render_frame_postlude">>)
        /\ PositionOf("wait_for_fences") = 1
        /\ PositionOf("render_frame_postlude") = Len(calls)
        /\ \A i \in Positions("cmd_pipeline_barrier2") :
              \/ PositionOf("begin_command_buffer") < i
                 /\ i < PositionOf("cmd_begin_rendering")
              \/ PositionOf("cmd_end_rendering") < i
                 /\ i < PositionOf("end_command_buffer")
        /\ Cardinality(PrePassBarrierCalls) <= 1
        /\ Cardinality(PostPassBarrierCalls) <= 1
        /\ PrePassBarrierCalls \cup PostPassBarrierCalls = Positions("cmd_pipeline_barrier2")
        /\ \A i \in CallbackCommands :
              PositionOf("draw_callback") < i /\ i < PositionOf("cmd_end_rendering")
        /\ pc = "end"
        /\ \A i \in 1 .. Len(calls) : calls[i].slot = current_frame

\* C21 witness: a presented frame with a pre-pass barrier, a post-pass
\* barrier and a draw.
C21_Witness ==
    /\ pc = "end"
    /\ Made("queue_submit") /\ Made("render_frame_postlude")
    /\ Times("cmd_pipeline_barrier2") = 2
    /\ Made("cmd_draw")

----------------------------------------------------------------------------
(* The state of an image, followed through the recorded barrier commands *)

BarrierSrc(b) == State(b.old_layout, b.src_access_mask, b.src_queue_family_index)
BarrierDst(b) == State(b.new_layout, b.dst_access_mask, b.dst_queue_family_index)

\* the state of an image a barrier was applied to in a state other than the
\* barrier's source state
Mismatch == State("MISMATCH", "MISMATCH", 0)

ApplyBarrier(state, b, image) ==
    IF b.image # image THEN state
    ELSE IF state = BarrierSrc(b) THEN BarrierDst(b)
    ELSE Mismatch

\* the first n barriers of one barrier command
RECURSIVE ApplyBarriers(_, _, _, _)
ApplyBarriers(state, barriers, n, image) ==
    IF n = 0 THEN state
    ELSE ApplyBarrier(ApplyBarriers(state, barriers, n - 1, image), barriers[n], image)

\* the state of the image after the first n calls of the log
RECURSIVE Track(_, _, _, _)
Track(image, initial, log, n) ==
    IF n = 0 THEN initial
    ELSE LET before == Track(image, initial, log, n - 1)
         IN  IF log[n].op = "cmd_pipeline_barrier2"
             THEN ApplyBarriers(before, log[n].arg, Len(log[n].arg), image)
             ELSE before

RecordedAttachments == RecordedFrame.color_attachments

\* C22: attachments are writable when the pass opens.  Following every
\* attachment's image from its declared initial state through the commands
\* recorded before begin rendering, the image is in the state
\* (COLOR_ATTACHMENT_OPTIMAL, COLOR_ATTACHMENT_WRITE, family 0) when begin
\* rendering is recorded; and every pre-pass barrier on the image has the
\* declared initial state as its source.
C22_WritableAtPassOpen ==
    Recorded =>
        \A k \in 1 .. Len(RecordedAttachments) :
            LET att == RecordedAttachments[k] IN
            /\ Track(att.image, att.initial_state, calls,
                     PositionOf("cmd_begin_rendering") - 1)
                  = [layout |-> "COLOR_ATTACHMENT_OPTIMAL",
                     access |-> "COLOR_ATTACHMENT_WRITE",
                     queue_family |-> 0]
            /\ \A i \in PrePassBarrierCalls :
                  \A j \in 1 .. Len(calls[i].arg) :
                      calls[i].arg[j].image = att.image =>
                          BarrierSrc(calls[i].arg[j]) = att.initial_state

\* C22 witness: two attachments declared in two different states, neither
\* of them the writable one, have been recorded.
C22_Witness ==
    /\ Recorded
    /\ Len(RecordedAttachments) = 2
    /\ RecordedAttachments[1].initial_state # RecordedAttachments[2].initial_state
    /\ \A k \in 1 .. 2 : RecordedAttachments[k].initial_state # Canonical
    /\ RecordedAttachments[1].initial_state.queue_family = 1

\* C23: attachments end in their declared final state.  Following every
\* attachment's image from its declared initial state through all recorded
\* commands, the image is in its declared final state when end recording is
\* issued; and every recorded barrier on the image starts from the declared
\* initial state or from the writable state.
C23_FinalStateAtEnd ==
    (Recorded /\ Made("end_command_buffer")) =>
        \A k \in 1 .. Len(RecordedAttachments) :
            LET att == RecordedAttachments[k] IN
            /\ Track(att.image, att.initial_state, calls,
                     PositionOf("end_command_buffer"))
                  = att.final_state
            /\ \A i \in Positions("cmd_pipeline_barrier2") :
                  \A j \in 1 .. Len(calls[i].arg) :
                      calls[i].arg[j].image = att.image =>
                          BarrierSrc(calls[i].arg[j]) \in
                              {att.initial_state,
                               [layout |-> "COLOR_ATTACHMENT_OPTIMAL",
                                access |-> "COLOR_ATTACHMENT_WRITE",
                                queue_family |-> 0]}

\* C23 witness: a submitted frame with two attachments whose declared final
\* states differ from each other and from the writable state.
C23_Witness ==
    /\ pc = "postlude"
    /\ Recorded
    /\ Len(RecordedAttachments) = 2
    /\ RecordedAttachments[1].final_state # RecordedAttachments[2].final_state
    /\ \A k \in 1 .. 2 : RecordedAttachments[k].final_state # Canonical
    /\ RecordedAttachments[2].final_state.queue_family = 1

----------------------------------------------------------------------------
(* The cursor *)

\* C24: a cycle whose acquisition failed does not advance the cursor.  When
\* render_to_target returns from a cycle whose prelude failed, current_frame
\* has the value it had during the cycle, and it is a slot index.
C24_NoAdvanceOnFailedAcquire ==
    [][ (PreludeFailed /\ pc = "end" /\ pc' = "idle") =>
            (current_frame' = current_frame /\ current_frame' \in Slots) ]_vars

----------------------------------------------------------------------------
(* First use of a slot *)

\* C25: the first use of each slot does not block.  When render_to_target
\* stands at the fence wait of a slot on which no cycle has run yet, the
\* slot's fence is signalled, so the wait returns, and no batch was ever
\* submitted on the slot, whatever was submitted on the other slot and
\* whether the GPU has finished it.
C25_FirstUseDoesNotBlock ==
    (pc = "wait" /\ last_outcome[current_frame] = "none") =>
        /\ fences[current_frame]
        /\ WaitForFences(fences[current_frame], TRUE)
        /\ ~gpu_pending[current_frame]

\* C25 witness: the second call waits on slot 1 for the first time while the
\* batch of the first call is still unfinished on the GPU.
C25_Witness ==
    /\ pc = "wait"
    /\ current_frame = 1
    /\ last_outcome[1] = "none"
    /\ gpu_pending[0]

----------------------------------------------------------------------------
(* Semaphore pairing within one cycle *)

\* the successful submissions of the cycle made before position i
SubmissionsBefore(i) ==
    {j \in Positions("queue_submit") : j < i /\ calls[j].arg.ok}

\* C26: no present without finished rendering.  Whatever acquire, begin and
\* submit returned, a present call of a cycle is preceded in the cycle by
\* exactly one queue submission, accepted by the queue, which signals the
\* render_finished semaphore the present waits on.
C26_PresentAfterSubmit ==
    \A i \in Positions("render_frame_postlude") :
        /\ Cardinality(SubmissionsBefore(i)) = 1
        /\ \A j \in SubmissionsBefore(i) :
              calls[j].arg.signal_semaphores = calls[i].arg.wait_semaphores

\* C27: every acquired image is consumed.  When a cycle whose acquire
\* succeeded has made its last call, it has made exactly one submission,
\* accepted by the queue, that waits on the image_available semaphore the
\* acquire was handed, whatever begin returned.
C27_AcquireConsumed ==
    (pc = "end" /\ PreludeSucceeded) =>
        /\ Cardinality(SubmissionsBefore(Len(calls) + 1)) = 1
        /\ \A j \in SubmissionsBefore(Len(calls) + 1) :
              /\ PositionOf("render_frame_prelude") < j
              /\ calls[j].arg.wait_semaphores = <<PreludeCall.arg.semaphore>>

----------------------------------------------------------------------------
(* Construction of the swapchain target: SwapchainRenderTarget::new.  The  *)
(* surface capabilities, the window's framebuffer size and the answers of  *)
(* the surface and the device to the later calls are inputs, and so is the *)
(* build: overflow checks, and whether a panic unwinds or aborts.          *)

\* a u32 is the pair <<high, low>> of its 16 bit halves, so that every value
\* up to u32::MAX can be written
HalfWord == 2 ^ 16
U32(n) == <<n \div HalfWord, n % HalfWord>>
U32_MAX == <<HalfWord - 1, HalfWord - 1>>
U32Less(a, b) == a[1] < b[1] \/ (a[1] = b[1] /\ a[2] < b[2])
U32LessEq(a, b) == a = b \/ U32Less(a, b)

\* the next u32, wrapping round at u32::MAX
U32Succ(a) ==
    IF a[2] < HalfWord - 1 THEN <<a[1], a[2] + 1>>
    ELSE IF a[1] < HalfWord - 1 THEN <<a[1] + 1, 0>>
    ELSE <<0, 0>>

\* `x as u32` for an i32 x: negative values wrap round to 2^32 + x
as_u32(x) ==
    IF x >= 0 THEN U32(x)
    ELSE <<HalfWord - 1 - ((0 - (x + 1)) \div HalfWord),
           HalfWord - 1 - ((0 - (x + 1)) % HalfWord)>>

\* the thread panics: the expression yields no value
Panic == <<>>

\* u32::clamp: asserts min <= max
u32_clamp(v, min, max) ==
    IF U32Less(max, min) THEN Panic
    ELSE IF U32Less(v, min) THEN min
    ELSE IF U32Less(max, v) THEN max
    ELSE v

\* u32::min
u32_min(a, b) == IF U32Less(b, a) THEN b ELSE a

\* `a + 1` on u32: panics on overflow in a build with overflow checks (the
\* dev profile), wraps round otherwise (the release profile)
u32_add_one(a, overflow_checks) ==
    IF a = U32_MAX /\ overflow_checks THEN Panic ELSE U32Succ(a)

Extent2D(w, h) == [width |-> w, height |-> h]

\* the small extents and the window sizes drawn as inputs
SmallValues == {U32(n) : n \in 0 .. MaxExtent}
SmallExtents == {Extent2D(w, h) : w \in SmallValues, h \in SmallValues}
CurrentExtents ==
    {Extent2D(w, h) : w \in SmallValues \cup {U32_MAX}, h \in SmallValues \cup {U32_MAX}}
WindowExtents == (0 - 1 .. MaxExtent) \X (0 - 1 .. MaxExtent)
CountValues == {U32(n) : n \in 0 .. MaxCount} \cup {U32_MAX}

SurfaceCapabilities(cur, min, max, min_count, max_count) ==
    [current_extent   |-> cur,
     min_image_extent |-> min,
     max_image_extent |-> max,
     min_image_count  |-> min_count,
     max_image_count  |-> max_count]

\* variant: the window size is taken as it is
extent_unclamped(capabilities, window_extent) ==
    IF capabilities.current_extent.height = U32_MAX
    THEN Extent2D(as_u32(window_extent[1]), as_u32(window_extent[2]))
    ELSE capabilities.current_extent

\* the `extent` of SwapchainRenderTarget::new
extent(capabilities, window_extent) ==
    IF capabilities.current_extent.height = U32_MAX
    THEN LET w == u32_clamp(as_u32(window_extent[1]),
                            capabilities.min_image_extent.width,
                            capabilities.max_image_extent.width)
             h == u32_clamp(as_u32(window_extent[2]),
                            capabilities.min_image_extent.height,
                            capabilities.max_image_extent.height)
         IN  IF w = Panic \/ h = Panic THEN Panic ELSE Extent2D(w, h)
    ELSE capabilities.current_extent

\* variant: the maximum is not looked at
image_count_uncapped(capabilities, overflow_checks) ==
    u32_add_one(capabilities.min_image_count, overflow_checks)

\* the `image_count` of SwapchainRenderTarget::new
image_count(capabilities, overflow_checks) ==
    LET one_more == u32_add_one(capabilities.min_image_count, overflow_checks)
    IN  IF one_more = Panic THEN Panic
        ELSE IF U32Less(U32(0), capabilities.max_image_count)
             THEN u32_min(capabilities.max_image_count, one_more)
             ELSE one_more

\* the state in which SwapchainRenderTarget::new has been handed the
\* capabilities; the renderer exists already and is at rest
SwapchainNewGiven(capabilities) ==
    /\ current_frame = 0
    /\ fences = [s \in Slots |-> create_fence(TRUE)]
    /\ clear_values = <<>>
    /\ render_area = None
    /\ gpu_pending = [s \in Slots |-> FALSE]
    /\ pc = "swapchain_new"
    /\ render_info = None
    /\ calls = <<Call("get_physical_device_surface_capabilities", None, capabilities)>>
    /\ last_clear = [i \in 0 .. MaxIndex |-> NeverCalled]
    /\ last_area = NeverCalled
    /\ last_outcome = [s \in Slots |-> "none"]
    /\ harness = None
    /\ device = None

\* the surface formats and present modes a surface can answer with
PreferredFormat == [format |-> "B8G8R8A8_SRGB", color_space |-> "SRGB_NONLINEAR"]
OtherFormat == [format |-> "R8G8B8A8_UNORM", color_space |-> "SRGB_NONLINEAR"]
OtherSpace == [format |-> "B8G8R8A8_SRGB", color_space |-> "EXTENDED_SRGB_LINEAR"]
FormatLists == {<<>>, <<OtherFormat>>, <<OtherSpace, PreferredFormat>>,
                <<OtherSpace, OtherFormat>>}
PresentModeLists == {<<"FIFO">>, <<"IMMEDIATE", "MAILBOX", "FIFO">>}

\* the `format` of SwapchainRenderTarget::new: the first preferred format,
\* else the first format, else none
surface_format(formats) ==
    LET found == {k \in 1 .. Len(formats) : formats[k] = PreferredFormat}
    IN  IF found # {} THEN Some(formats[CHOOSE k \in found : \A l \in found : k <= l])
        ELSE IF Len(formats) > 0 THEN Some(formats[1])
        ELSE None

\* the `present_mode` of SwapchainRenderTarget::new
present_mode(present_modes) ==
    IF \E k \in 1 .. Len(present_modes) : present_modes[k] = "MAILBOX"
    THEN "MAILBOX" ELSE "FIFO"

\* what the surface and the device answer to the calls after the image
\* count: the two queries, create_swapchain, get_swapchain_images, and the
\* number of create_image_view calls that succeed
Answers(formats_ok, formats, modes_ok, modes, create_ok, images_ok, views) ==
    [formats_ok |-> formats_ok, formats |-> formats,
     present_modes_ok |-> modes_ok, present_modes |-> modes,
     create_ok |-> create_ok, images_ok |-> images_ok, views |-> views]

DriverAnswers ==
    {Answers(TRUE, f, TRUE, m, TRUE, TRUE, MaxImages) :
        f \in FormatLists, m \in PresentModeLists}
    \cup {Answers(FALSE, <<>>, TRUE, <<"FIFO">>, TRUE, TRUE, MaxImages),
          Answers(TRUE, <<PreferredFormat>>, FALSE, <<>>, TRUE, TRUE, MaxImages),
          Answers(TRUE, <<PreferredFormat>>, TRUE, <<"FIFO">>, FALSE, TRUE, MaxImages),
          Answers(TRUE, <<PreferredFormat>>, TRUE, <<"FIFO">>, TRUE, FALSE, MaxImages)}
    \cup {Answers(TRUE, <<PreferredFormat>>, TRUE, <<"FIFO">>, TRUE, TRUE, v) :
            v \in 0 .. MaxImages - 1}

\* the calls of the constructor after the image count, up to its return;
\* when it returns Err the Window it took by value is dropped
Construction(e, n, a) ==
    LET formats_call ==
            <<Call("get_physical_device_surface_formats", None,
                   [ok |-> a.formats_ok, formats |-> a.formats])>>
        modes_call ==
            <<Call("get_physical_device_surface_present_modes", None,
                   [ok |-> a.present_modes_ok, present_modes |-> a.present_modes])>>
        create_call ==
            <<Call("create_swapchain", None,
                   [image_extent |-> e,
                    min_image_count |-> n,
                    image_format |-> Unwrap(surface_format(a.formats)),
                    present_mode |-> present_mode(a.present_modes),
                    ok |-> a.create_ok])>>
        images_call == <<Call("get_swapchain_images", None, [ok |-> a.images_ok])>>
        view_calls ==
            [k \in 1 .. (IF a.views < MaxImages THEN a.views + 1 ELSE MaxImages) |->
                Call("create_image_view", None, [image |-> k - 1, ok |-> k <= a.views])]
    IN  IF ~a.formats_ok \/ surface_format(a.formats) = None
        THEN formats_call \o Window_drop
        ELSE IF ~a.present_modes_ok
        THEN formats_call \o modes_call \o Window_drop
        ELSE IF ~a.create_ok
        THEN formats_call \o modes_call \o create_call \o Window_drop
        ELSE IF ~a.images_ok
        THEN formats_call \o modes_call \o create_call \o images_call \o Window_drop
        ELSE IF a.views < MaxImages
        THEN formats_call \o modes_call \o create_call \o images_call \o view_calls
             \o Window_drop
        ELSE formats_call \o modes_call \o create_call \o images_call \o view_calls

\* new returns Ok
Constructed(a) ==
    /\ a.formats_ok /\ surface_format(a.formats) # None
    /\ a.present_modes_ok /\ a.create_ok /\ a.images_ok
    /\ a.views = MaxImages

\* the constructor reads the framebuffer size in the sentinel branch only
SizeRead(capabilities, window_extent) ==
    IF capabilities.current_extent.height = U32_MAX
    THEN <<Call("get_framebuffer_size", None, window_extent)>>
    ELSE <<>>

\* SwapchainRenderTarget::new panics in u32::clamp or in the addition: the
\* thread unwinds, dropping the window, or the process aborts
SwapchainRenderTarget_new_panic(window_extent, overflow_checks, unwind) ==
    /\ pc = "swapchain_new"
    /\ LET capabilities == calls[1].arg
       IN  /\ \/ extent(capabilities, window_extent) = Panic
              \/ image_count(capabilities, overflow_checks) = Panic
           /\ calls' = calls \o SizeRead(capabilities, window_extent)
                             \o (IF unwind THEN Window_drop ELSE <<>>)
    /\ pc' = "panicked"
    /\ UNCHANGED <<current_frame, fences, gpu_pending, render_info, last_outcome,
                   harness, device, Config>>

\* SwapchainRenderTarget::new from the capabilities on, returning Ok or Err
SwapchainRenderTarget_new(window_extent, overflow_checks, answers) ==
    /\ pc = "swapchain_new"
    /\ LET capabilities == calls[1].arg
           e == extent(capabilities, window_extent)
           n == image_count(capabilities, overflow_checks)
       IN  /\ e # Panic
           /\ n # Panic
           /\ calls' = calls \o SizeRead(capabilities, window_extent)
                             \o Construction(e, n, answers)
    /\ pc' = IF Constructed(answers) THEN "target_created" ELSE "target_failed"
    /\ UNCHANGED <<current_frame, fences, gpu_pending, render_info, last_outcome,
                   harness, device, Config>>

\* the framebuffer sizes that make a difference: all of them where the size
\* is read, one where it is not
FramebufferSizes ==
    IF pc = "swapchain_new" /\ calls[1].arg.current_extent.height = U32_MAX
    THEN WindowExtents ELSE {<<0, 0>>}

NextSwapchainNew ==
    \E window_extent \in FramebufferSizes, overflow_checks \in BOOLEAN :
        \/ \E unwind \in BOOLEAN :
              SwapchainRenderTarget_new_panic(window_extent, overflow_checks, unwind)
        \/ \E answers \in DriverAnswers :
              SwapchainRenderTarget_new(window_extent, overflow_checks, answers)

\* every extent triple, the image counts of a swapchain of MaxImages images
InitExtent ==
    \E cur \in CurrentExtents, min \in SmallExtents, max \in SmallExtents :
        SwapchainNewGiven(SurfaceCapabilities(cur, min, max, U32(MaxImages - 1), U32(0)))

SpecExtent == InitExtent /\ [][NextSwapchainNew]_vars

\* every pair of image counts, the extent fixed
InitImageCount ==
    \E min_count \in CountValues, max_count \in CountValues :
        SwapchainNewGiven(
            SurfaceCapabilities(Extent2D(U32(FrameExtent[1]), U32(FrameExtent[2])),
                                Extent2D(U32(0), U32(0)),
                                Extent2D(U32(FrameExtent[1]), U32(FrameExtent[2])),
                                min_count, max_count))

SpecImageCount == InitImageCount /\ [][NextSwapchainNew]_vars

\* readers of the construction log
Capabilities == calls[1].arg
WindowSize == calls[PositionOf("get_framebuffer_size")].arg
Created == calls[PositionOf("create_swapchain")].arg
Within(e, min, max) ==
    /\ U32LessEq(min.width, e.width) /\ U32LessEq(e.width, max.width)
    /\ U32LessEq(min.height, e.height) /\ U32LessEq(e.height, max.height)
\* c is v clamped to [min, max]
IsClamped(c, v, min, max) ==
    /\ U32LessEq(min, c) /\ U32LessEq(c, max)
    /\ c \in {v, min, max}
    /\ (U32LessEq(min, v) /\ U32LessEq(v, max)) => c = v
    /\ U32Less(v, min) => c = min
    /\ U32Less(max, v) => c = max

\* C28 as stated: when the current extent is the sentinel (u32::MAX,
\* u32::MAX) the chosen extent is the window size clamped per dimension,
\* otherwise it is the current extent; in both cases it lies within the
\* min/max image extent.
C28_ExtentAlwaysWithin ==
    pc = "target_created" =>
        LET c == Capabilities IN
        /\ c.current_extent = Extent2D(U32_MAX, U32_MAX) =>
              /\ Made("get_framebuffer_size")
              /\ IsClamped(Created.image_extent.width, as_u32(WindowSize[1]),
                           c.min_image_extent.width, c.max_image_extent.width)
              /\ IsClamped(Created.image_extent.height, as_u32(WindowSize[2]),
                           c.min_image_extent.height, c.max_image_extent.height)
        /\ c.current_extent # Extent2D(U32_MAX, U32_MAX) =>
              Created.image_extent = c.current_extent
        /\ Within(Created.image_extent, c.min_image_extent, c.max_image_extent)

\* C28 (amended): when the height of the current extent is u32::MAX the
\* chosen extent is the window's framebuffer size, cast to u32, with width
\* and height clamped to the min/max image extent, and so lies within it;
\* otherwise the chosen extent is exactly the current extent, unclamped, and
\* lies within the min/max image extent only if the current extent does.
C28_Extent ==
    pc = "target_created" =>
        LET c == Capabilities IN
        /\ c.current_extent.height = U32_MAX =>
              /\ Made("get_framebuffer_size")
              /\ IsClamped(Created.image_extent.width, as_u32(WindowSize[1]),
                           c.min_image_extent.width, c.max_image_extent.width)
              /\ IsClamped(Created.image_extent.height, as_u32(WindowSize[2]),
                           c.min_image_extent.height, c.max_image_extent.height)
              /\ Within(Created.image_extent, c.min_image_extent, c.max_image_extent)
        /\ c.current_extent.height # U32_MAX =>
              /\ ~Made("get_framebuffer_size")
              /\ Created.image_extent = c.current_extent
              /\ Within(Created.image_extent, c.min_image_extent, c.max_image_extent)
                    <=> Within(c.current_extent, c.min_image_extent, c.max_image_extent)

\* C28 witness: the surface reports the sentinel; the window is narrower
\* than the minimum and taller than the maximum, and both are clamped.
C28_Witness ==
    /\ pc = "target_created"
    /\ Capabilities.current_extent = Extent2D(U32_MAX, U32_MAX)
    /\ Made("get_framebuffer_size")
    /\ U32Less(as_u32(WindowSize[1]), Capabilities.min_image_extent.width)
    /\ U32Less(Capabilities.max_image_extent.height, as_u32(WindowSize[2]))
    /\ Created.image_extent = Extent2D(Capabilities.min_image_extent.width,
                                       Capabilities.max_image_extent.height)

\* C29 as stated: the requested image count is min_image_count + 1 when
\* max_image_count is 0 and min(max_image_count, min_image_count + 1)
\* otherwise; it is always at least min_image_count and never above a
\* maximum that is enforced.
C29_ImageCountAlwaysAtLeastMin ==
    pc = "target_created" =>
        LET c == Capabilities
            one_more == U32Succ(c.min_image_count)
            n == Created.min_image_count
        IN  /\ c.max_image_count = U32(0) => n = one_more
            /\ c.max_image_count # U32(0) =>
                  /\ n \in {c.max_image_count, one_more}
                  /\ U32LessEq(n, c.max_image_count)
                  /\ U32LessEq(n, one_more)
            /\ U32LessEq(c.min_image_count, n)

\* C29 (amended): the requested image count is min_image_count + 1 (in u32
\* arithmetic) when max_image_count is 0 and min(max_image_count,
\* min_image_count + 1) otherwise; it is never above a maximum that is
\* enforced; it is at least min_image_count whenever min_image_count is below
\* u32::MAX and the surface enforces no maximum or one of at least
\* min_image_count.
C29_ImageCount ==
    pc = "target_created" =>
        LET c == Capabilities
            one_more == U32Succ(c.min_image_count)
            n == Created.min_image_count
        IN  /\ c.max_image_count = U32(0) => n = one_more
            /\ c.max_image_count # U32(0) =>
                  /\ n \in {c.max_image_count, one_more}
                  /\ U32LessEq(n, c.max_image_count)
                  /\ U32LessEq(n, one_more)
            /\ (/\ c.min_image_count # U32_MAX
                /\ \/ c.max_image_count = U32(0)
                   \/ U32LessEq(c.min_image_count, c.max_image_count))
                  => U32LessEq(c.min_image_count, n)

\* C29 witness: a maximum above the minimum by more than one is enforced and
\* one image more than the minimum is requested.
C29_Witness ==
    /\ pc = "target_created"
    /\ Capabilities.min_image_count = U32(2)
    /\ Capabilities.max_image_count = U32(4)
    /\ Created.min_image_count = U32(3)

----------------------------------------------------------------------------
(* Queue family selection of RenderSystem::new.  The queue families of the *)
(* physical device and their presentation support are inputs; the calls    *)
(* before the selection are taken to have succeeded, and the action ends   *)
(* where create_device is called.                                          *)

QueueFlags == {"GRAPHICS", "COMPUTE", "TRANSFER"}

\* one queue family: its queue_flags and what
\* get_physical_device_presentation_support_raw answers for it
QueueFamilyProperties == [queue_flags : SUBSET QueueFlags, present : BOOLEAN]

\* the family lists of at most MaxFamilies families
RECURSIVE FamilyLists(_)
FamilyLists(n) ==
    IF n = 0 THEN {<<>>}
    ELSE FamilyLists(n - 1) \cup
         {Append(l, q) : l \in {m \in FamilyLists(n - 1) : Len(m) = n - 1},
                         q \in QueueFamilyProperties}

\* main_queue, present_queue, transfer_queue before the loop
NoneSelected == [main_queue |-> None, present_queue |-> None, transfer_queue |-> None]

\* variant: a present family found earlier is kept when the main family is
\* found
SelectStepKeepPresent(sel, index, properties) ==
    LET first_graphics == sel.main_queue = None /\ "GRAPHICS" \in properties.queue_flags
        present_1 == sel.present_queue
        present_2 == IF present_1 = None /\ properties.present
                     THEN Some(index) ELSE present_1
    IN  [main_queue     |-> IF first_graphics THEN Some(index) ELSE sel.main_queue,
         present_queue  |-> present_2,
         transfer_queue |-> IF /\ sel.transfer_queue = None
                               /\ "GRAPHICS" \notin properties.queue_flags
                               /\ "COMPUTE" \notin properties.queue_flags
                               /\ "TRANSFER" \in properties.queue_flags
                            THEN Some(index) ELSE sel.transfer_queue]

\* one iteration of the loop over the families
SelectStep(sel, index, properties) ==
    LET first_graphics == sel.main_queue = None /\ "GRAPHICS" \in properties.queue_flags
        present_1 == IF first_graphics /\ properties.present
                     THEN Some(index) ELSE sel.present_queue
        present_2 == IF present_1 = None /\ properties.present
                     THEN Some(index) ELSE present_1
    IN  [main_queue     |-> IF first_graphics THEN Some(index) ELSE sel.main_queue,
         present_queue  |-> present_2,
         transfer_queue |-> IF /\ sel.transfer_queue = None
                               /\ "GRAPHICS" \notin properties.queue_flags
                               /\ "COMPUTE" \notin properties.queue_flags
                               /\ "TRANSFER" \in properties.queue_flags
                            THEN Some(index) ELSE sel.transfer_queue]

\* the loop over the first n families; family k of the list has index k - 1
RECURSIVE SelectLoop(_, _)
SelectLoop(families, n) ==
    IF n = 0 THEN NoneSelected
    ELSE SelectStep(SelectLoop(families, n - 1), n - 1, families[n])

\* the QueueFamilyInfo, or Err when main or present is missing
QueueFamilyInfo(families) ==
    LET sel == SelectLoop(families, Len(families))
    IN  IF sel.main_queue = None \/ sel.present_queue = None THEN Err
        ELSE Ok([main     |-> Unwrap(sel.main_queue),
                 present  |-> Unwrap(sel.present_queue),
                 transfer |-> UnwrapOr(sel.transfer_queue, Unwrap(sel.main_queue))])

\* the queue family indices of device_queue_create_infos
device_queue_create_infos(queue_family_info) ==
    <<queue_family_info.main>>
    \o (IF queue_family_info.present # queue_family_info.main
        THEN <<queue_family_info.present>> ELSE <<>>)
    \o (IF /\ queue_family_info.transfer # queue_family_info.main
           /\ queue_family_info.transfer # queue_family_info.present
        THEN <<queue_family_info.transfer>> ELSE <<>>)

\* the state in which RenderSystem::new has read the families; the renderer
\* is built afterwards and its variables play no part
RenderSystemNewGiven(families) ==
    /\ current_frame = 0
    /\ fences = [s \in Slots |-> create_fence(TRUE)]
    /\ clear_values = <<>>
    /\ render_area = None
    /\ gpu_pending = [s \in Slots |-> FALSE]
    /\ pc = "render_system_new"
    /\ render_info = None
    /\ calls = <<Call("get_physical_device_queue_family_properties", None, families)>>
    /\ last_clear = [i \in 0 .. MaxIndex |-> NeverCalled]
    /\ last_area = NeverCalled
    /\ last_outcome = [s \in Slots |-> "none"]
    /\ harness = None
    /\ device = None

\* RenderSystem::new from the families to the create_device call
RenderSystem_new ==
    /\ pc = "render_system_new"
    /\ LET result == QueueFamilyInfo(calls[1].arg)
       IN  IF ~result.ok
           THEN /\ calls' = calls
                /\ pc' = "render_system_failed"
           ELSE /\ calls' = Append(calls,
                        Call("create_device", None,
                             [queue_family_info |-> Unwrap(result.info),
                              queue_create_infos |->
                                  device_queue_create_infos(Unwrap(result.info))]))
                /\ pc' = "device_created"
    /\ UNCHANGED <<current_frame, fences, gpu_pending, render_info, last_outcome,
                   harness, device, Config>>

InitRenderSystem == \E families \in FamilyLists(MaxFamilies) : RenderSystemNewGiven(families)

NextRenderSystem == RenderSystem_new

SpecRenderSystem == InitRenderSystem /\ [][NextRenderSystem]_vars

\* readers of the selection
Families == calls[1].arg
Indices(P(_)) == {i \in 0 .. Len(Families) - 1 : P(Families[i + 1])}
Lowest(S) == CHOOSE i \in S : \A j \in S : i <= j
IsGraphics(q) == "GRAPHICS" \in q.queue_flags
IsPresent(q) == q.present
IsTransferOnly(q) ==
    /\ "TRANSFER" \in q.queue_flags
    /\ "GRAPHICS" \notin q.queue_flags
    /\ "COMPUTE" \notin q.queue_flags
DeviceCreate == calls[PositionOf("create_device")].arg

\* C30: queue family selection.  The construction fails at the selection if
\* and only if no family supports graphics or no family supports
\* presentation; otherwise main is the lowest graphics family, present is a
\* family that supports presentation and is main whenever main supports it,
\* transfer is the lowest family with TRANSFER and neither GRAPHICS nor
\* COMPUTE, or main when there is none, and the queue create list names no
\* family twice.
C30_QueueFamilySelection ==
    pc \in {"render_system_failed", "device_created"} =>
        /\ pc = "render_system_failed"
              <=> (Indices(IsGraphics) = {} \/ Indices(IsPresent) = {})
        /\ pc = "device_created" =>
              LET info == DeviceCreate.queue_family_info
                  list == DeviceCreate.queue_create_infos
              IN  /\ info.main = Lowest(Indices(IsGraphics))
                  /\ info.present \in Indices(IsPresent)
                  /\ info.main \in Indices(IsPresent) => info.present = info.main
                  /\ info.transfer = IF Indices(IsTransferOnly) = {} THEN info.main
                                     ELSE Lowest(Indices(IsTransferOnly))
                  /\ \A i, j \in 1 .. Len(list) : list[i] = list[j] => i = j

\* C30 witness: a presentation family lies before the main family, which
\* supports presentation too and is chosen for it; a dedicated transfer
\* family is named as well.
C30_Witness ==
    /\ pc = "device_created"
    /\ DeviceCreate.queue_family_info.main = 1
    /\ 0 \in Indices(IsPresent)
    /\ DeviceCreate.queue_family_info.present = 1
    /\ DeviceCreate.queue_family_info.transfer = 2
    /\ DeviceCreate.queue_create_infos = <<1, 2>>

====
